---------------------------- MODULE Spec2Model ----------------------------
(***************************************************************************)
(* Nexus: the event-driven coordination core.                              *)
(*                                                                         *)
(* The module holds several specifications over one set of variables:      *)
(*   SpecApp      - src/app.rs: App::handle_event and the units of work    *)
(*                  it spawns                                              *)
(*   SpecMain     - src/main.rs: the consumer loop, the startup tasks and  *)
(*                  the units handle_error_event spawns                    *)
(*   SpecListener - src/network/signals.rs: the change-notification        *)
(*                  listener and its timers                                *)
(*   SpecShutdown - src/event.rs and the cleanup of src/main.rs            *)
(*   SpecAnim     - the network list with its signal smoothing             *)
(*   SpecDiag     - src/app.rs: the Diagnostics page and its input dialog  *)
(*   SpecStats    - src/network/stats.rs: StatsPoller::poll                *)
(*   SpecSlide    - src/animation/mod.rs: AnimationState                   *)
(*   SpecAps      - src/network/manager.rs: list_access_points             *)
(*   SpecDiagOut  - src/app.rs: the diagnostics output buffer              *)
(*   SpecToast    - src/app.rs: the toast and its tick count               *)
(*   SpecConfirm  - src/app.rs: the confirm dialog and what it dispatches  *)
(*   SpecModes    - src/app.rs: the mode and the two dialogs               *)
(*   SpecStop     - src/event.rs: the producer tasks against stop()        *)
(*   SpecStorm    - src/network/signals.rs: the debounce under a storm     *)
(*   SpecSpike    - src/network/stats.rs: poll() against the true counters *)
(*   SpecSelect   - src/app.rs: the selection of the WiFi page             *)
(* Each specification leaves the other groups' variables at their initial  *)
(* values.                                                                 *)
(***************************************************************************)
EXTENDS Integers, Sequences, FiniteSets, TLC

VARIABLES
    app,        \* the App struct of src/app.rs (a record of its fields)
    tasks,      \* units of work spawned by App and not yet finished
    amode,      \* main.rs: app.mode (AppMode)
    astatus,    \* main.rs: the stored connection status
    anetworks,  \* main.rs: the stored network list
    mquit,      \* main.rs: app.should_quit
    mqueue,     \* main.rs: the unbounded mpsc channel of Event
    mtasks,     \* main.rs: units spawned with tokio::spawn
    lpc,        \* main.rs: position of the consumer loop
    cur,        \* main.rs: the event taken by events.next(), while handled
    now,        \* signals.rs: the tokio clock, in seconds
    sub,        \* signals.rs: outcome of subscribe_device_signals
    slpc,       \* signals.rs: position of start_signal_listener
    last_signal,\* signals.rs: the debounce timestamp
    timers,     \* signals.rs: next deadline of each spawned interval
    chan,       \* signals.rs: event_tx as seen by the listener
    notes,      \* signals.rs: the notifications taken from the stream
    stop,       \* event.rs: EventHandler::stop (the AtomicBool)
    rx_open,    \* event.rs: the receiver of the queue is not yet dropped
    ppc,        \* position of each producer loop
    cleanup,    \* main.rs: position of main after the loop
    tick_left,  \* event.rs: milliseconds to the next tick of the tick task
    sleep_left, \* main.rs: milliseconds left of the sleep in the cleanup
    closed_sends,\* producers that have sent on the closed channel
    published,  \* event.rs: the events sent by the two tasks of EventHandler::new,
                \* each with the value of the stop flag at the send
    nets,       \* the WiFiNetwork list with its animation fields
    poller,     \* stats.rs: the StatsPoller (its maps previous and stats)
    polls,      \* stats.rs: number of poll() calls made
    sysfs,      \* stats.rs: what /sys/class/net answered in the last poll(), and
                \* which interfaces it had listed before
    warm,       \* stats.rs: polls of steady traffic still to come
    counters,   \* stats.rs: the rx_bytes counters the kernel keeps in /sys/class/net
    animation,  \* animation/mod.rs: the AnimationState
    since_start,\* animation/mod.rs: ticks since the last start_dialog_slide
    bus_aps,    \* manager.rs: what the service answered to list_access_points
    listed_aps  \* manager.rs: the result of list_access_points

appVars == <<app, tasks>>
mainVars == <<amode, astatus, anetworks, mquit, mqueue, mtasks, lpc, cur>>
sigVars == <<now, sub, slpc, last_signal, timers, chan, notes>>
shutVars == <<stop, rx_open, ppc, cleanup, tick_left, sleep_left, closed_sends,
              published>>
animVars == <<nets>>
statVars == <<poller, polls, sysfs, warm, counters>>
slideVars == <<animation, since_start>>
apVars == <<bus_aps, listed_aps>>
extVars == <<statVars, slideVars, apVars>>
vars == <<app, tasks, amode, astatus, anetworks, mquit, mqueue, mtasks, lpc, cur,
          now, sub, slpc, last_signal, timers, chan, notes,
          stop, rx_open, ppc, cleanup, tick_left, sleep_left, closed_sends, published,
          nets,
          poller, polls, sysfs, warm, counters, animation, since_start,
          bus_aps, listed_aps>>

-----------------------------------------------------------------------------
(* Bounds of the model *)

MaxTasks == 2
MaxInput == 1
MaxFilter == 1
MaxDiagLines == 1
MaxMainQueue == 1
MaxMainTasks == 2
MaxTime == 20
MaxStartDelay == 1
MaxNotes == 2
MaxSeen == 4
MaxPolls == 3
MaxStep == 1
MaxAnimTicks == 26
MaxAps == 3
MaxDevices == 50
MaxModeTasks == 1
MaxPublished == 3
MaxStormNotes == 4
MaxStormTime == 6
MaxCounter == 5

-----------------------------------------------------------------------------
(* Option<T>: None is the empty sequence, Some(v) the one-element sequence *)

None == <<>>
Some(v) == <<v>>
IsSome(o) == Len(o) > 0
Unwrap(o) == o[1]

RemoveAt(seq, i) == SubSeq(seq, 1, i - 1) \o SubSeq(seq, i + 1, Len(seq))


-----------------------------------------------------------------------------
(* src/app.rs and the types it uses *)

Page == {"Dashboard", "Interfaces", "Wifi", "Connections", "Diagnostics"}
Mode == {"Normal", "Input", "Dialog", "Filtering"}
PermissionLevel == {"Full", "ReadOnly", "Unknown"}

can_write(level) == level = "Full"

is_connected(state) == state = "Activated"

DiagnosticTool_all == <<"Ping", "DnsLookup", "RouteTable", "DnsServers", "InterfaceStats">>

\* char::to_lowercase on the characters the model types
to_lowercase_char(c) ==
    CASE c = "Q" -> "q" [] c = "R" -> "r" [] c = "S" -> "s" [] c = "W" -> "w"
      [] c = "D" -> "d" [] c = "X" -> "x" [] c = "Y" -> "y" [] c = "N" -> "n"
      [] c = "G" -> "g" [] c = "C" -> "c" [] OTHER -> c

to_lowercase(str) == [i \in 1..Len(str) |-> to_lowercase_char(str[i])]

\* str::contains: pat occurs as a contiguous piece of str
contains(str, pat) ==
    \E i \in 1..(Len(str) + 1) :
        /\ i + Len(pat) - 1 <= Len(str)
        /\ SubSeq(str, i, i + Len(pat) - 1) = pat

\* Keys: a character key is the character itself, the others are named.
\* "C-c" is KeyCode::Char('c') with the CONTROL modifier.
SpecialKeys == {"Enter", "Esc", "Tab", "BackTab", "Backspace", "Delete", "Left",
                "Right", "Up", "Down", "Home", "End"}
CharKeys == {"q", "Q", "r", "R", "s", "S", "w", "W", "d", "D", "x", "X", "y", "Y",
             "n", "N", "j", "k", "g", "G", "c", "C", "/", "1", "2", "3", "4", "5"}
\* A character of two bytes in UTF-8 (e with acute accent)
WideChars == {"U+00E9"}
KeyCode_Char(k) == IF k = "C-c" THEN "c" ELSE k
IsChar(k) == k \in CharKeys \/ k \in WideChars \/ k = "C-c"

\* char::len_utf8
len_utf8(c) == IF c \in WideChars THEN 2 ELSE 1

\* String::len: the length in bytes
RECURSIVE String_len(_)
String_len(str) == IF str = <<>> THEN 0 ELSE len_utf8(Head(str)) + String_len(Tail(str))

\* str::is_char_boundary: idx is the byte offset of the start of a character
\* or of the end of the string
is_char_boundary(str, idx) ==
    \E n \in 0..Len(str) : String_len(SubSeq(str, 1, n)) = idx

\* The number of characters before the byte offset idx, a character boundary
chars_before(str, idx) ==
    CHOOSE n \in 0..Len(str) : String_len(SubSeq(str, 1, n)) = idx

\* String::remove(idx) returns; it panics when idx is not a character
\* boundary or is the end of the string
can_remove(str, idx) == idx < String_len(str) /\ is_char_boundary(str, idx)

\* panicked: an editing operation has panicked and the thread is unwinding
InputDialog_new(title, masked) ==
    [title |-> title, input |-> <<>>, cursor_pos |-> 0, masked |-> masked,
     visible |-> FALSE, panicked |-> FALSE]

InputDialog_show(d) == [d EXCEPT !.input = <<>>, !.cursor_pos = 0, !.visible = TRUE]

\* InputDialog::hide that clears the text but leaves the dialog visible
InputDialog_hide_Visible(d) == [d EXCEPT !.input = <<>>, !.cursor_pos = 0]

InputDialog_hide(d) == [d EXCEPT !.visible = FALSE, !.input = <<>>, !.cursor_pos = 0]

\* String::insert(cursor_pos, c) panics off a character boundary; cursor_pos
\* is a byte offset and advances by one whatever the width of c
insert_char(d, c) ==
    IF is_char_boundary(d.input, d.cursor_pos)
    THEN LET n == chars_before(d.input, d.cursor_pos)
         IN [d EXCEPT !.input = SubSeq(@, 1, n) \o <<c>> \o SubSeq(@, n + 1, Len(@)),
                      !.cursor_pos = @ + 1]
    ELSE [d EXCEPT !.panicked = TRUE]

delete_char(d) ==
    IF d.cursor_pos > 0
    THEN IF can_remove(d.input, d.cursor_pos - 1)
         THEN [d EXCEPT !.cursor_pos = @ - 1,
                        !.input = RemoveAt(@, chars_before(@, d.cursor_pos - 1) + 1)]
         ELSE [d EXCEPT !.cursor_pos = @ - 1, !.panicked = TRUE]
    ELSE d

delete_forward(d) ==
    IF d.cursor_pos < String_len(d.input)
    THEN IF can_remove(d.input, d.cursor_pos)
         THEN [d EXCEPT !.input = RemoveAt(@, chars_before(@, d.cursor_pos) + 1)]
         ELSE [d EXCEPT !.panicked = TRUE]
    ELSE d

move_left(d) == IF d.cursor_pos > 0 THEN [d EXCEPT !.cursor_pos = @ - 1] ELSE d

move_right(d) ==
    IF d.cursor_pos < String_len(d.input) THEN [d EXCEPT !.cursor_pos = @ + 1] ELSE d

move_start(d) == [d EXCEPT !.cursor_pos = 0]

move_end(d) == [d EXCEPT !.cursor_pos = String_len(d.input)]

ConfirmDialog_show(d, title) == [d EXCEPT !.title = title, !.visible = TRUE]

ConfirmDialog_hide(d) == [d EXCEPT !.visible = FALSE]

\* A unit of work handed to tokio::spawn: what it will call and with what
Task(kind, ssid, password, obj) ==
    [kind |-> kind, ssid |-> ssid, password |-> password, obj |-> obj, sent |-> 0]

spawn(s, t) == [s EXCEPT !.tasks = Append(@, t)]

App_new ==
    [active_page |-> "Dashboard",
     mode |-> "Normal",
     should_quit |-> FALSE,
     permission_level |-> "Unknown",
     network_state |-> None,
     interfaces_state |-> [selected_index |-> 0],
     wifi_state |-> [selected_index |-> 0, filter |-> <<>>, scanning |-> FALSE],
     connections_state |-> [selected_index |-> 0],
     diagnostics_state |-> [selected_tool |-> 0, output |-> <<>>, running |-> FALSE,
                            target |-> <<>>],
     input_dialog |-> InputDialog_new(<<>>, FALSE),
     confirm_dialog |-> [title |-> "", visible |-> FALSE],
     toast_message |-> None,
     toast_is_error |-> FALSE,
     toast_ticks |-> 0,
     pending_action |-> None]

next_page(s) ==
    [s EXCEPT !.active_page =
        CASE @ = "Dashboard" -> "Interfaces"
          [] @ = "Interfaces" -> "Wifi"
          [] @ = "Wifi" -> "Connections"
          [] @ = "Connections" -> "Diagnostics"
          [] @ = "Diagnostics" -> "Dashboard"]

prev_page(s) ==
    [s EXCEPT !.active_page =
        CASE @ = "Dashboard" -> "Diagnostics"
          [] @ = "Interfaces" -> "Dashboard"
          [] @ = "Wifi" -> "Interfaces"
          [] @ = "Connections" -> "Wifi"
          [] @ = "Diagnostics" -> "Connections"]

show_toast(s, message, is_error) ==
    [s EXCEPT !.toast_message = Some(message), !.toast_is_error = is_error,
              !.toast_ticks = 12]

\* tick_toast without the clearing of the message at zero
tick_toast_NoClear(s) ==
    IF s.toast_ticks > 0 THEN [s EXCEPT !.toast_ticks = @ - 1] ELSE s

tick_toast(s) ==
    IF s.toast_ticks > 0
    THEN IF s.toast_ticks - 1 = 0
         THEN [s EXCEPT !.toast_ticks = 0, !.toast_message = None]
         ELSE [s EXCEPT !.toast_ticks = @ - 1]
    ELSE s

handle_dashboard_key(s, k) == s

\* Vec::get(i) on a 0-based index
get(seq, i) == IF i < Len(seq) THEN Some(seq[i + 1]) ELSE None

\* Iterator::find
RECURSIVE find_from(_, _, _)
find_from(seq, P(_), i) ==
    IF i > Len(seq) THEN None
    ELSE IF P(seq[i]) THEN Some(seq[i]) ELSE find_from(seq, P, i + 1)

find(seq, P(_)) == find_from(seq, P, 1)

disconnect_selected_interface(s) ==
    IF ~can_write(s.permission_level)
    THEN show_toast(s, "Read-only mode - cannot disconnect", TRUE)
    ELSE IF ~IsSome(s.network_state) THEN s
    ELSE LET device == get(Unwrap(s.network_state).devices,
                           s.interfaces_state.selected_index)
         IN IF ~IsSome(device) THEN s
            ELSE IF ~is_connected(Unwrap(device).state)
            THEN show_toast(s, "Device is not connected", TRUE)
            ELSE [s EXCEPT
                    !.pending_action =
                        Some([kind |-> "DisconnectDevice",
                              obj |-> Unwrap(device).interface]),
                    !.confirm_dialog = ConfirmDialog_show(@, "Disconnect"),
                    !.mode = "Dialog"]

handle_interfaces_key(s, k) ==
    LET device_count == IF IsSome(s.network_state)
                        THEN Len(Unwrap(s.network_state).devices) ELSE 0
        sel == s.interfaces_state.selected_index
    IN CASE k \in {"Up", "k"} ->
              IF sel > 0 THEN [s EXCEPT !.interfaces_state.selected_index = sel - 1]
              ELSE s
         [] k \in {"Down", "j"} ->
              IF device_count > 0 /\ sel < device_count - 1
              THEN [s EXCEPT !.interfaces_state.selected_index = sel + 1]
              ELSE s
         [] k \in {"Home", "g"} -> [s EXCEPT !.interfaces_state.selected_index = 0]
         [] k \in {"End", "G"} ->
              IF device_count > 0
              THEN [s EXCEPT !.interfaces_state.selected_index = device_count - 1]
              ELSE s
         [] k \in {"d", "D"} -> disconnect_selected_interface(s)
         [] OTHER -> s

\* The access points the WiFi page lists: all of them, or those whose SSID
\* contains the filter, case-insensitively
filtered_aps(s) ==
    LET state == Unwrap(s.network_state)
        fl == to_lowercase(s.wifi_state.filter)
    IN IF s.wifi_state.filter = <<>>
       THEN state.wifi_access_points
       ELSE SelectSeq(state.wifi_access_points,
                      LAMBDA ap : contains(to_lowercase(ap.ssid), fl))

trigger_wifi_scan(s) ==
    spawn([s EXCEPT !.wifi_state.scanning = TRUE], Task("scan", <<>>, None, ""))

toggle_wireless(s) ==
    IF ~can_write(s.permission_level)
    THEN show_toast(s, "Read-only mode - cannot toggle WiFi", TRUE)
    ELSE spawn(s, Task("toggle", <<>>, None, ""))

is_wifi(d) == d.device_type = "WiFi"

activate_saved_wifi(s, ap) ==
    LET state == Unwrap(s.network_state)
        wifi_device == find(state.devices, is_wifi)
        saved_conn == find(state.saved_connections,
                           LAMBDA c : c.id = ap.ssid /\ c.conn_type = "802-11-wireless")
    IN IF IsSome(wifi_device) /\ IsSome(saved_conn)
       THEN spawn(s, Task("activate", ap.ssid, None, Unwrap(saved_conn).id))
       ELSE s

connect_wifi_direct(s, ap, password) ==
    LET state == Unwrap(s.network_state)
        wifi_device == find(state.devices, is_wifi)
    IN IF IsSome(wifi_device)
       THEN spawn(s, Task("connect", ap.ssid, password, ""))
       ELSE s

connect_selected_wifi(s) ==
    IF ~can_write(s.permission_level)
    THEN show_toast(s, "Read-only mode - cannot connect", TRUE)
    ELSE IF ~IsSome(s.network_state) THEN s
    ELSE LET ap == get(filtered_aps(s), s.wifi_state.selected_index)
         IN IF ~IsSome(ap) THEN s
            ELSE IF Unwrap(ap).is_active
            THEN show_toast(s, "Already connected to this network", FALSE)
            ELSE IF Unwrap(ap).is_saved THEN activate_saved_wifi(s, Unwrap(ap))
            ELSE IF Unwrap(ap).security = "Open"
            THEN connect_wifi_direct(s, Unwrap(ap), None)
            ELSE [s EXCEPT
                    !.input_dialog =
                        InputDialog_show(
                            InputDialog_new(<<"Connect to ">> \o Unwrap(ap).ssid, TRUE)),
                    !.mode = "Input"]

handle_wifi_key(s, k) ==
    LET ap_count == IF IsSome(s.network_state) THEN Len(filtered_aps(s)) ELSE 0
        sel == s.wifi_state.selected_index
    IN CASE k \in {"Up", "k"} ->
              IF sel > 0 THEN [s EXCEPT !.wifi_state.selected_index = sel - 1] ELSE s
         [] k \in {"Down", "j"} ->
              IF ap_count > 0 /\ sel < ap_count - 1
              THEN [s EXCEPT !.wifi_state.selected_index = sel + 1]
              ELSE s
         [] k \in {"Home", "g"} -> [s EXCEPT !.wifi_state.selected_index = 0]
         [] k \in {"End", "G"} ->
              IF ap_count > 0
              THEN [s EXCEPT !.wifi_state.selected_index = ap_count - 1]
              ELSE s
         [] k \in {"s", "S"} -> trigger_wifi_scan(s)
         [] k = "/" -> [s EXCEPT !.wifi_state.filter = <<>>, !.mode = "Filtering"]
         [] k \in {"w", "W"} -> toggle_wireless(s)
         [] k = "Enter" -> connect_selected_wifi(s)
         [] OTHER -> s

activate_selected_connection(s) ==
    IF ~can_write(s.permission_level)
    THEN show_toast(s, "Read-only mode - cannot activate", TRUE)
    ELSE IF ~IsSome(s.network_state) THEN s
    ELSE LET state == Unwrap(s.network_state)
             conn == get(state.saved_connections, s.connections_state.selected_index)
         IN IF ~IsSome(conn) THEN s
            ELSE LET c == Unwrap(conn)
                     active_uuids == {state.active_connections[i].uuid :
                                        i \in 1..Len(state.active_connections)}
                     device == find(state.devices,
                        LAMBDA d :
                          /\ CASE c.conn_type = "802-11-wireless" -> d.device_type = "WiFi"
                               [] c.conn_type = "802-3-ethernet" ->
                                    d.device_type = "Ethernet"
                               [] OTHER -> FALSE
                          /\ (~IsSome(c.interface) \/ c.interface = Some(d.interface)))
                 IN IF c.uuid \in active_uuids
                    THEN show_toast(s, "Connection is already active", FALSE)
                    ELSE IF ~IsSome(device)
                    THEN show_toast(s, "No suitable device found for this connection",
                                    TRUE)
                    ELSE spawn(s, Task("activate", <<>>, None, c.id))

deactivate_selected_connection(s) ==
    IF ~can_write(s.permission_level)
    THEN show_toast(s, "Read-only mode - cannot deactivate", TRUE)
    ELSE IF ~IsSome(s.network_state) THEN s
    ELSE LET state == Unwrap(s.network_state)
             conn == get(state.saved_connections, s.connections_state.selected_index)
         IN IF ~IsSome(conn) THEN s
            ELSE LET active == find(state.active_connections,
                                    LAMBDA ac : ac.uuid = Unwrap(conn).uuid)
                 IN IF ~IsSome(active)
                    THEN show_toast(s, "Connection is not active", TRUE)
                    ELSE spawn(s, Task("deactivate", <<>>, None, Unwrap(conn).id))

delete_selected_connection(s) ==
    IF ~can_write(s.permission_level)
    THEN show_toast(s, "Read-only mode - cannot delete", TRUE)
    ELSE IF ~IsSome(s.network_state) THEN s
    ELSE LET conn == get(Unwrap(s.network_state).saved_connections,
                         s.connections_state.selected_index)
         IN IF ~IsSome(conn) THEN s
            ELSE [s EXCEPT
                    !.pending_action =
                        Some([kind |-> "DeleteConnection", obj |-> Unwrap(conn).id]),
                    !.confirm_dialog = ConfirmDialog_show(@, "Delete Connection"),
                    !.mode = "Dialog"]

handle_connections_key(s, k) ==
    LET conn_count == IF IsSome(s.network_state)
                      THEN Len(Unwrap(s.network_state).saved_connections) ELSE 0
        sel == s.connections_state.selected_index
    IN CASE k \in {"Up", "k"} ->
              IF sel > 0 THEN [s EXCEPT !.connections_state.selected_index = sel - 1]
              ELSE s
         [] k \in {"Down", "j"} ->
              IF conn_count > 0 /\ sel < conn_count - 1
              THEN [s EXCEPT !.connections_state.selected_index = sel + 1]
              ELSE s
         [] k \in {"Home", "g"} -> [s EXCEPT !.connections_state.selected_index = 0]
         [] k \in {"End", "G"} ->
              IF conn_count > 0
              THEN [s EXCEPT !.connections_state.selected_index = conn_count - 1]
              ELSE s
         [] k = "Enter" -> activate_selected_connection(s)
         [] k \in {"d", "D"} -> deactivate_selected_connection(s)
         [] k \in {"x", "X"} -> delete_selected_connection(s)
         [] OTHER -> s

\* VecDeque::push_back of each element of lines, in order
push_all(output, lines) == output \o lines

run_route_table(s) ==
    spawn([s EXCEPT !.diagnostics_state.output = <<">>> Route Table", "---">>,
                    !.diagnostics_state.running = TRUE],
          Task("route", <<>>, None, ""))

show_dns_servers(s) ==
    LET head == <<">>> DNS Servers", "---">>
    IN IF IsSome(s.network_state)
       THEN LET dns == Unwrap(s.network_state).dns
                servers == [i \in 1..Len(dns.servers) |-> "  server"]
                domains == IF dns.search_domains # <<>>
                           THEN <<"", ">>> Search Domains">>
                                \o [i \in 1..Len(dns.search_domains) |-> "  domain"]
                           ELSE <<>>
            IN [s EXCEPT !.diagnostics_state.output =
                            push_all(push_all(head, servers), domains)]
       ELSE [s EXCEPT !.diagnostics_state.output = head]

RECURSIVE stats_lines(_, _, _)
stats_lines(devices, stats, i) ==
    IF i > Len(devices) THEN <<>>
    ELSE (IF devices[i].interface \in stats
          THEN <<"  iface:", "    RX", "    TX", "">>
          ELSE <<>>) \o stats_lines(devices, stats, i + 1)

show_interface_stats(s) ==
    LET head == <<">>> Interface Statistics", "---">>
    IN IF IsSome(s.network_state)
       THEN LET state == Unwrap(s.network_state)
            IN [s EXCEPT !.diagnostics_state.output =
                            push_all(head, stats_lines(state.devices, state.stats, 1))]
       ELSE [s EXCEPT !.diagnostics_state.output = head]

run_ping(s, target) ==
    spawn([s EXCEPT !.diagnostics_state.target = target,
                    !.diagnostics_state.output = <<">>> Ping", "---">>,
                    !.diagnostics_state.running = TRUE],
          Task("ping", target, None, ""))

\* dns_lookup::lookup_host is called in place; resolved is its result:
\* Some(number of addresses) or None for an error
run_dns_lookup(s, domain, resolved) ==
    [s EXCEPT !.diagnostics_state.target = domain,
              !.diagnostics_state.output =
                  push_all(<<">>> DNS Lookup", "---">>,
                           IF IsSome(resolved)
                           THEN [i \in 1..Unwrap(resolved) |-> "  addr"]
                           ELSE <<"  Error">>)]

run_diagnostic(s) ==
    LET t == get(DiagnosticTool_all, s.diagnostics_state.selected_tool)
        tool == IF IsSome(t) THEN Unwrap(t) ELSE "Ping"
    IN CASE tool \in {"Ping", "DnsLookup"} ->
              [s EXCEPT
                 !.input_dialog =
                     InputDialog_show(
                         InputDialog_new(IF tool = "Ping" THEN <<"Ping">>
                                         ELSE <<"DNS Lookup">>, FALSE)),
                 !.mode = "Input"]
         [] tool = "RouteTable" -> run_route_table(s)
         [] tool = "DnsServers" -> show_dns_servers(s)
         [] tool = "InterfaceStats" -> show_interface_stats(s)

handle_diagnostics_key(s, k) ==
    LET tool_count == Len(DiagnosticTool_all)
        sel == s.diagnostics_state.selected_tool
    IN CASE k \in {"Up", "k"} ->
              IF sel > 0
              THEN [s EXCEPT !.diagnostics_state.selected_tool = sel - 1,
                             !.diagnostics_state.output = <<>>]
              ELSE s
         [] k \in {"Down", "j"} ->
              IF sel < tool_count - 1
              THEN [s EXCEPT !.diagnostics_state.selected_tool = sel + 1,
                             !.diagnostics_state.output = <<>>]
              ELSE s
         [] k \in {"c", "C"} -> [s EXCEPT !.diagnostics_state.output = <<>>]
         [] k = "Enter" -> run_diagnostic(s)
         [] OTHER -> s

on_input_submit(s, title, value, resolved) ==
    IF value = <<>> THEN s
    ELSE CASE Len(title) > 0 /\ title[1] = "Connect to " ->
                LET ssid == Tail(title)
                IN IF IsSome(s.network_state)
                   THEN LET ap == find(Unwrap(s.network_state).wifi_access_points,
                                       LAMBDA a : a.ssid = ssid)
                        IN IF IsSome(ap)
                           THEN connect_wifi_direct(s, Unwrap(ap), Some(value))
                           ELSE s
                   ELSE s
           [] title = <<"Ping">> -> run_ping(s, value)
           [] title = <<"DNS Lookup">> -> run_dns_lookup(s, value, resolved)
           [] OTHER -> s

handle_input_key(s, k, resolved) ==
    CASE k = "Esc" ->
           [s EXCEPT !.input_dialog = InputDialog_hide(@), !.mode = "Normal"]
      [] k = "Enter" ->
           on_input_submit(
               [s EXCEPT !.input_dialog = InputDialog_hide(@), !.mode = "Normal"],
               s.input_dialog.title, s.input_dialog.input, resolved)
      [] k = "Backspace" -> [s EXCEPT !.input_dialog = delete_char(@)]
      [] k = "Delete" -> [s EXCEPT !.input_dialog = delete_forward(@)]
      [] k = "Left" -> [s EXCEPT !.input_dialog = move_left(@)]
      [] k = "Right" -> [s EXCEPT !.input_dialog = move_right(@)]
      [] k = "Home" -> [s EXCEPT !.input_dialog = move_start(@)]
      [] k = "End" -> [s EXCEPT !.input_dialog = move_end(@)]
      [] IsChar(k) -> [s EXCEPT !.input_dialog = insert_char(@, KeyCode_Char(k))]
      [] OTHER -> s

on_confirm(s) ==
    IF ~IsSome(s.pending_action) THEN s
    ELSE LET action == Unwrap(s.pending_action)
             taken == [s EXCEPT !.pending_action = None]
         IN CASE action.kind = "DeleteConnection" ->
                   spawn(taken, Task("delete", <<>>, None, action.obj))
              [] action.kind = "DisconnectDevice" ->
                   spawn(taken, Task("disconnect", <<>>, None, action.obj))

\* handle_dialog_key whose cancel leaves the pending action stored
handle_dialog_key_KeepPending(s, k) ==
    CASE k \in {"y", "Y"} ->
           on_confirm([s EXCEPT !.confirm_dialog = ConfirmDialog_hide(@),
                                !.mode = "Normal"])
      [] k \in {"n", "N", "Esc"} ->
           [s EXCEPT !.confirm_dialog = ConfirmDialog_hide(@), !.mode = "Normal"]
      [] OTHER -> s

handle_dialog_key(s, k) ==
    CASE k \in {"y", "Y"} ->
           on_confirm([s EXCEPT !.confirm_dialog = ConfirmDialog_hide(@),
                                !.mode = "Normal"])
      [] k \in {"n", "N", "Esc"} ->
           [s EXCEPT !.confirm_dialog = ConfirmDialog_hide(@),
                     !.pending_action = None,
                     !.mode = "Normal"]
      [] OTHER -> s

\* String::pop
pop(str) == IF str = <<>> THEN str ELSE SubSeq(str, 1, Len(str) - 1)

handle_filter_key(s, k) ==
    CASE k = "Esc" ->
           [s EXCEPT !.wifi_state.filter = <<>>, !.wifi_state.selected_index = 0,
                     !.mode = "Normal"]
      [] k = "Enter" -> [s EXCEPT !.wifi_state.selected_index = 0, !.mode = "Normal"]
      [] k = "Backspace" ->
           [s EXCEPT !.wifi_state.filter = pop(@), !.wifi_state.selected_index = 0]
      [] IsChar(k) ->
           [s EXCEPT !.wifi_state.filter = Append(@, KeyCode_Char(k)),
                     !.wifi_state.selected_index = 0]
      [] OTHER -> s

trigger_refresh(s) == spawn(s, Task("refresh", <<>>, None, ""))

handle_key(s, k, resolved) ==
    CASE s.mode = "Input" -> handle_input_key(s, k, resolved)
      [] s.mode = "Dialog" -> handle_dialog_key(s, k)
      [] s.mode = "Filtering" -> handle_filter_key(s, k)
      [] OTHER ->
           CASE k \in {"q", "Q"} -> [s EXCEPT !.should_quit = TRUE]
             [] k = "C-c" -> [s EXCEPT !.should_quit = TRUE]
             [] k = "Tab" -> next_page(s)
             [] k = "BackTab" -> prev_page(s)
             [] k = "1" -> [s EXCEPT !.active_page = "Dashboard"]
             [] k = "2" -> [s EXCEPT !.active_page = "Interfaces"]
             [] k = "3" -> [s EXCEPT !.active_page = "Wifi"]
             [] k = "4" -> [s EXCEPT !.active_page = "Connections"]
             [] k = "5" -> [s EXCEPT !.active_page = "Diagnostics"]
             [] k \in {"r", "R"} -> trigger_refresh(s)
             [] OTHER ->
                  CASE s.active_page = "Dashboard" -> handle_dashboard_key(s, k)
                    [] s.active_page = "Interfaces" -> handle_interfaces_key(s, k)
                    [] s.active_page = "Wifi" -> handle_wifi_key(s, k)
                    [] s.active_page = "Connections" -> handle_connections_key(s, k)
                    [] s.active_page = "Diagnostics" -> handle_diagnostics_key(s, k)

DIAG_MAX == 200

\* while output.len() > 200 { output.pop_front() }
RECURSIVE keep_bounded(_)
keep_bounded(output) ==
    IF Len(output) > DIAG_MAX THEN keep_bounded(Tail(output)) ELSE output

clamp(sel, len) == IF sel >= len /\ len # 0 THEN len - 1 ELSE sel

\* An Event of the app.rs iteration: e.type names the variant
handle_event(s, e, resolved) ==
    CASE e.type = "Key" -> handle_key(s, e.key, resolved)
      [] e.type = "Tick" -> tick_toast(s)
      [] e.type = "NetworkRefresh" ->
           [s EXCEPT
              !.network_state = Some(e.state),
              !.wifi_state.scanning = FALSE,
              !.interfaces_state.selected_index = clamp(@, Len(e.state.devices)),
              !.wifi_state.selected_index = clamp(@, Len(e.state.wifi_access_points)),
              !.connections_state.selected_index =
                  clamp(@, Len(e.state.saved_connections))]
      [] e.type = "ActionSuccess" ->
           CASE e.msg = "DIAG:" ->
                  [s EXCEPT !.diagnostics_state.output = keep_bounded(Append(@, "line"))]
             [] e.msg = "DIAG_DONE:" -> [s EXCEPT !.diagnostics_state.running = FALSE]
             [] OTHER -> trigger_refresh(show_toast(s, e.msg, FALSE))
      [] e.type = "ActionError" ->
           LET t == show_toast(s, e.msg, TRUE)
           IN IF e.msg \in {"PermissionDenied", "permission"}
              THEN [t EXCEPT !.permission_level = "ReadOnly",
                             !.diagnostics_state.running = FALSE]
              ELSE [t EXCEPT !.diagnostics_state.running = FALSE]
      [] e.type \in {"Mouse", "Resize"} -> s

-----------------------------------------------------------------------------
(* The inputs of SpecApp *)

\* The keys the user presses
AppKeys == {"q", "2", "3", "r", "s", "j", "d", "y", "Enter", "Esc", "Backspace"}

\* Outcomes of dns_lookup::lookup_host
DnsResults == {None, Some(1)}

AP(ssid, security, is_saved, is_active) ==
    [ssid |-> ssid, security |-> security, is_saved |-> is_saved,
     is_active |-> is_active]

Dev(interface, device_type, state) ==
    [interface |-> interface, device_type |-> device_type, state |-> state]

Profile(id, uuid, conn_type) ==
    [id |-> id, uuid |-> uuid, conn_type |-> conn_type, interface |-> None]

\* Results of NetworkManager::snapshot. The access points come from the WiFi
\* devices of the same snapshot; is_saved comes from a second listing of the
\* saved profiles, which can succeed when the snapshot's own listing failed.
SnapHome ==
    [devices |-> <<Dev("wlan0", "WiFi", "Activated")>>,
     wifi_access_points |-> <<AP(<<"s">>, "Open", FALSE, FALSE),
                              AP(<<"x">>, "WPA2", FALSE, FALSE),
                              AP(<<"d">>, "WPA2", TRUE, FALSE)>>,
     saved_connections |-> <<Profile(<<"d">>, 1, "802-11-wireless")>>,
     active_connections |-> <<>>,
     dns |-> [servers |-> <<"1.1.1.1">>, search_domains |-> <<>>],
     stats |-> {"wlan0"}]

SnapNoProfiles ==
    [devices |-> <<Dev("wlan0", "WiFi", "Activated")>>,
     wifi_access_points |-> <<AP(<<"s">>, "Open", FALSE, TRUE),
                              AP(<<"d">>, "WPA2", TRUE, FALSE)>>,
     saved_connections |-> <<>>,
     active_connections |-> <<[uuid |-> 2]>>,
     dns |-> [servers |-> <<>>, search_domains |-> <<>>],
     stats |-> {}]

SnapWired ==
    [devices |-> <<Dev("eth0", "Ethernet", "Disconnected")>>,
     wifi_access_points |-> <<>>,
     saved_connections |-> <<Profile(<<"d">>, 1, "802-11-wireless")>>,
     active_connections |-> <<[uuid |-> 1]>>,
     dns |-> [servers |-> <<>>, search_domains |-> <<"lan">>],
     stats |-> {}]

Snapshots == {SnapHome, SnapNoProfiles, SnapWired}

KeyEvent(k) == [type |-> "Key", key |-> k]
ActionSuccess(msg) == [type |-> "ActionSuccess", msg |-> msg]
ActionError(msg) == [type |-> "ActionError", msg |-> msg]
NetworkRefresh(state) == [type |-> "NetworkRefresh", state |-> state]

\* The error texts a failed RPC produces: one that names a permission
\* failure and one that does not
RpcErrors == {"PermissionDenied", "Failed"}

-----------------------------------------------------------------------------
(* SpecApp: App::handle_event driven by keys, ticks and the results of the *)
(* units of work it spawned                                                *)

\* The App record together with the spawned units, as the handlers see them
World == [f \in DOMAIN app \cup {"tasks"} |-> IF f = "tasks" THEN tasks ELSE app[f]]

WithoutTasks(w) == [f \in DOMAIN w \ {"tasks"} |-> w[f]]

WithinBounds(w) ==
    /\ Len(w.tasks) <= MaxTasks
    /\ Len(w.input_dialog.input) <= MaxInput
    /\ Len(w.wifi_state.filter) <= MaxFilter

\* One iteration of the consumer loop: the event is handled to completion
Deliver(w, e, resolved) ==
    LET r == handle_event(w, e, resolved)
    IN /\ WithinBounds(r)
       /\ app' = WithoutTasks(r)
       /\ tasks' = r.tasks
       /\ UNCHANGED <<mainVars, sigVars, shutVars, animVars, extVars>>

Finished(i) == [World EXCEPT !.tasks = RemoveAt(@, i)]

RpcKinds == {"toggle", "activate", "connect", "deactivate", "delete", "disconnect"}

SuccessText(t) ==
    CASE t.kind = "toggle" -> "WiFi toggled"
      [] t.kind \in {"activate", "connect"} -> "Connecting"
      [] t.kind = "deactivate" -> "Deactivated"
      [] t.kind = "delete" -> "Deleted"
      [] t.kind = "disconnect" -> "Disconnected"

\* auth::check_permissions at startup
AppCheckPermissions ==
    /\ app.permission_level = "Unknown"
    /\ \E level \in {"Full", "ReadOnly"} :
          app' = [app EXCEPT !.permission_level = level]
    /\ UNCHANGED <<tasks, mainVars, sigVars, shutVars, animVars, extVars>>

AppKey ==
    /\ ~app.should_quit
    /\ \E k \in AppKeys, resolved \in DnsResults : Deliver(World, KeyEvent(k), resolved)

AppTick ==
    /\ ~app.should_quit
    /\ Deliver(World, [type |-> "Tick"], None)

AppResize ==
    /\ ~app.should_quit
    /\ Deliver(World, [type |-> "Resize"], None)

\* An RPC unit ends with Ok: its ActionSuccess is handled
AppRpcOk ==
    /\ ~app.should_quit
    /\ \E i \in 1..Len(tasks) :
          /\ tasks[i].kind \in RpcKinds
          /\ Deliver(Finished(i), ActionSuccess(SuccessText(tasks[i])), None)

\* An RPC unit ends with Err: its ActionError is handled
AppRpcErr ==
    /\ ~app.should_quit
    /\ \E i \in 1..Len(tasks), msg \in RpcErrors :
          /\ tasks[i].kind \in RpcKinds
          /\ Deliver(Finished(i), ActionError(msg), None)

\* The scan unit of trigger_wifi_scan ends
AppScanDone ==
    /\ ~app.should_quit
    /\ \E i \in 1..Len(tasks) :
          /\ tasks[i].kind = "scan"
          /\ Deliver(Finished(i), ActionSuccess("WiFi scan complete"), None)

\* The unit of trigger_refresh ends
AppRefreshDone ==
    /\ ~app.should_quit
    /\ \E i \in 1..Len(tasks), state \in Snapshots :
          /\ tasks[i].kind = "refresh"
          /\ Deliver(Finished(i), NetworkRefresh(state), None)

\* A ping or route unit sends one line of output
AppDiagLine ==
    /\ ~app.should_quit
    /\ \E i \in 1..Len(tasks) :
          /\ tasks[i].kind \in {"ping", "route"}
          /\ tasks[i].sent < MaxDiagLines
          /\ Deliver([World EXCEPT !.tasks[i].sent = @ + 1], ActionSuccess("DIAG:"), None)

\* A ping or route unit ends after its last line
AppDiagDone ==
    /\ ~app.should_quit
    /\ \E i \in 1..Len(tasks) :
          /\ tasks[i].kind \in {"ping", "route"}
          /\ Deliver(Finished(i), ActionSuccess("DIAG_DONE:"), None)

\* The subprocess of a ping or route unit could not be started
AppDiagErr ==
    /\ ~app.should_quit
    /\ \E i \in 1..Len(tasks) :
          /\ tasks[i].kind \in {"ping", "route"}
          /\ tasks[i].sent = 0
          /\ Deliver(Finished(i), ActionError("Failed"), None)

MainIdle ==
    /\ amode = "Normal" /\ astatus = "Disconnected" /\ anetworks = <<>> /\ mquit = FALSE
    /\ mqueue = <<>> /\ mtasks = <<>> /\ lpc = "next" /\ cur = None

\* The signal listener has not been started
SigIdle ==
    /\ now = 0
    /\ sub = [result |-> "pending", attempts |-> 0]
    /\ slpc = "start"
    /\ last_signal = -1
    /\ timers = [poll |-> -1, fallback |-> -1, since |-> -1]
    /\ chan = [open |-> TRUE, refreshes |-> <<>>]
    /\ notes = <<>>

Producers == {"input", "tick", "listener", "poll"}

\* The shutdown of main has not begun and no producer is looked at
ShutIdle ==
    /\ stop = FALSE
    /\ rx_open = TRUE
    /\ ppc = [p \in Producers |-> "idle"]
    /\ cleanup = "loop"
    /\ tick_left = 0
    /\ sleep_left = 0
    /\ closed_sends = {}
    /\ published = <<>>

\* No network list is kept
AnimIdle == nets = <<>>

\* StatsPoller::new: both maps empty
\* HashMap::new
HashMap_new == [k \in {} |-> 0]

StatsPoller_new == [previous |-> HashMap_new, stats |-> HashMap_new]

\* The poller is constructed and poll() not yet called
StatIdle ==
    /\ poller = StatsPoller_new
    /\ polls = 0
    /\ sysfs = None
    /\ warm = 0
    /\ counters = HashMap_new

FLAG_SPINNER == 1
FLAG_DIALOG_SLIDE == 2

\* The denominator of dialog_t, kept as a fraction: dialog_duration cubed
Cube(x) == x * x * x

\* AnimationState::default; dialog_t is the numerator of a fraction over
\* Cube(dialog_duration), dialog_elapsed and dialog_duration are whole ticks
AnimationState_default ==
    [tick_count |-> 0, active |-> 0, dialog_t |-> 0, dialog_duration |-> 12,
     dialog_elapsed |-> 0]

\* No AnimationState is looked at
SlideIdle ==
    /\ animation = AnimationState_default
    /\ since_start = None

\* list_access_points is not called
ApIdle ==
    /\ bus_aps = None
    /\ listed_aps = None

ExtIdle == StatIdle /\ SlideIdle /\ ApIdle

InitApp ==
    /\ app = App_new
    /\ tasks = <<>>
    /\ MainIdle
    /\ SigIdle
    /\ ShutIdle
    /\ AnimIdle
    /\ ExtIdle

NextApp ==
    \/ AppCheckPermissions
    \/ AppKey
    \/ AppResize
    \/ AppRpcOk
    \/ AppRpcErr
    \/ AppScanDone
    \/ AppRefreshDone

SpecApp == InitApp /\ [][NextApp]_vars

-----------------------------------------------------------------------------
(* Claims checked under SpecApp *)

\* The operations on the WiFi device: scan, connect (new or saved profile)
\* and disconnect
DeviceOps == {"scan", "connect", "activate", "disconnect"}
ConnectOps == {"connect", "activate", "disconnect"}

InFlight(ts, kinds) == {i \in 1..Len(ts) : ts[i].kind \in kinds}

\* A scan, connect or disconnect has been dispatched and its terminal event
\* has not been handled yet
DeviceBusy == InFlight(tasks, DeviceOps) # {}

\* C1: a connect or disconnect request made while a connect, disconnect or
\* scan is still in flight dispatches nothing, so the number of connect and
\* disconnect units in flight never grows while the device is busy.
C1_NoDispatchWhileBusy ==
    [][DeviceBusy =>
         Cardinality(InFlight(tasks', ConnectOps))
            <= Cardinality(InFlight(tasks, ConnectOps))]_vars

\* The state asks for a connect: Normal mode, WiFi page, write permission, and
\* the selected row is an access point that is not the active one
ConnectRequestable(w) ==
    /\ w.mode = "Normal"
    /\ w.active_page = "Wifi"
    /\ can_write(w.permission_level)
    /\ IsSome(w.network_state)
    /\ IsSome(get(filtered_aps(w), w.wifi_state.selected_index))
    /\ ~Unwrap(get(filtered_aps(w), w.wifi_state.selected_index)).is_active

\* The password prompt of a connect is open with a password typed
PasswordSubmittable(w) ==
    /\ w.mode = "Input"
    /\ Len(w.input_dialog.title) > 0
    /\ w.input_dialog.title[1] = "Connect to "
    /\ w.input_dialog.input # <<>>

\* What the user gets back from a request handled in w with result r: a unit
\* of work was dispatched, a prompt was opened, or an error toast is up
Responded(w, r) ==
    \/ Len(r.tasks) > Len(w.tasks)
    \/ r.mode = "Input"
    \/ (IsSome(r.toast_message) /\ r.toast_is_error /\ r.toast_ticks > 0)

\* C4: a failed command is never silently dropped. In every reachable state,
\* a connect request and a password submit either dispatch a unit of work,
\* open the prompt or show an error toast, and the ActionError of every unit
\* in flight shows an error toast.
C4_FailureNeverDropped ==
    /\ ConnectRequestable(World) =>
          Responded(World, handle_event(World, KeyEvent("Enter"), None))
    /\ PasswordSubmittable(World) =>
          Responded(World, handle_event(World, KeyEvent("Enter"), None))
    /\ \A i \in 1..Len(tasks), msg \in RpcErrors :
          LET r == handle_event(Finished(i), ActionError(msg), None)
          IN IsSome(r.toast_message) /\ r.toast_is_error /\ r.toast_ticks > 0

\* C5: while a scan, connect or disconnect is outstanding, every key other
\* than the quit key leaves the application state unchanged and dispatches
\* nothing.
C5_BusyIgnoresKeys ==
    DeviceBusy =>
        \A k \in AppKeys \ {"q"} : handle_event(World, KeyEvent(k), None) = World

\* C6: the machine is in exactly one Mode and no two busy conditions hold at
\* once: never scanning together with connecting or disconnecting, and never
\* a busy condition together with an open input or confirm dialog.
C6_ExclusiveModes ==
    /\ app.mode \in Mode
    /\ ~(app.wifi_state.scanning /\ InFlight(tasks, ConnectOps) # {})
    /\ (app.wifi_state.scanning \/ DeviceBusy) =>
          (~app.input_dialog.visible /\ ~app.confirm_dialog.visible)

-----------------------------------------------------------------------------
(* src/main.rs: the consumer loop and the units of work it spawns.        *)
(* The App of this iteration (AppMode, handle_key, update_networks,       *)
(* update_connection_status) is not among the sources; those four are     *)
(* taken from the specification's transition table.                       *)

AppMode == {"Normal", "Scanning", "PasswordInput", "Connecting", "Disconnecting",
            "Hidden", "Help", "Search", "Error"}
BusyModes == {"Scanning", "Connecting", "Disconnecting"}

Event(type, arg) == [type |-> type, arg |-> arg]

\* A unit handed to tokio::spawn in main.rs; pc is its position, sent the
\* number of events it has put into the queue
MainTask(kind, ssid, password) ==
    [kind |-> kind, ssid |-> ssid, password |-> password, pc |-> "new", sent |-> 0]

\* The fields of App this iteration's main.rs touches, with the queue and
\* the spawned units
MainWorld ==
    [mode |-> amode, status |-> astatus, networks |-> anetworks, should_quit |-> mquit,
     queue |-> mqueue, tasks |-> mtasks]

send(m, e) == [m EXCEPT !.queue = Append(@, e)]

mspawn(m, t) == [m EXCEPT !.tasks = Append(@, t)]

\* str::splitn(2, ':'): the piece before the first ':' and, if there is a
\* ':', the piece after it
RECURSIVE colon_at(_, _)
colon_at(str, i) ==
    IF i > Len(str) THEN 0 ELSE IF str[i] = ":" THEN i ELSE colon_at(str, i + 1)

splitn2(str) ==
    LET c == colon_at(str, 1)
    IN IF c = 0 THEN <<str>>
       ELSE <<SubSeq(str, 1, c - 1), SubSeq(str, c + 1, Len(str))>>

\* msg.strip_prefix(prefix): the command words are single tokens of the text
strip_prefix(msg, prefix) ==
    IF Len(msg) > 0 /\ msg[1] = prefix THEN Some(Tail(msg)) ELSE None

\* parts.get(1).and_then(|p| if p.is_empty() { None } else { Some(p) })
password_of(parts) ==
    IF Len(parts) >= 2 /\ parts[2] # <<>> THEN Some(parts[2]) ELSE None

handle_error_event(m, msg) ==
    CASE IsSome(strip_prefix(msg, "CONNECT:")) ->
           LET parts == splitn2(Unwrap(strip_prefix(msg, "CONNECT:")))
           IN mspawn(m, MainTask("connect", parts[1], password_of(parts)))
      [] IsSome(strip_prefix(msg, "CONNECT_HIDDEN:")) ->
           LET parts == splitn2(Unwrap(strip_prefix(msg, "CONNECT_HIDDEN:")))
           IN mspawn(m, MainTask("connect_hidden", parts[1], password_of(parts)))
      [] IsSome(strip_prefix(msg, "FORGET:")) ->
           mspawn(m, MainTask("forget", Unwrap(strip_prefix(msg, "FORGET:")), None))
      [] IsSome(strip_prefix(msg, "DISCONNECT:")) ->
           mspawn(m, MainTask("disconnect", <<>>, None))
      [] OTHER -> [m EXCEPT !.mode = "Error"]

handle_network_event(m, ev) ==
    CASE ev.type = "ScanComplete" ->
           IF ev.arg # <<>>
           THEN send(m, Event("NetworkScan", ev.arg))
           ELSE mspawn(m, MainTask("scan", <<>>, None))
      [] ev.type = "ConnectionChanged" ->
           mspawn(send(m, Event("ConnectionChanged", ev.arg)),
                  MainTask("conn", <<>>, None))

\* Scanning + ScanResult: the list is replaced and the mode returns to Normal
update_networks(m, networks) ==
    [m EXCEPT !.networks = networks,
              !.mode = IF @ = "Scanning" THEN "Normal" ELSE @]

\* Connecting/Disconnecting + ConnectionStatusChanged: the status is stored
\* and the mode returns to Normal, whatever the status
update_connection_status(m, status) ==
    [m EXCEPT !.status = status,
              !.mode = IF @ \in {"Connecting", "Disconnecting"} THEN "Normal" ELSE @]

\* The network the user has selected in this iteration's list
SelectedSsid == <<"a">>

\* The key handler of this iteration: quit in every mode; busy modes ignore
\* every other key; Normal dispatches by sending a command text
AppMode_handle_key(m, k) ==
    CASE k = "q" -> [m EXCEPT !.should_quit = TRUE]
      [] m.mode \in BusyModes -> m
      [] m.mode = "Normal" /\ k = "Enter" ->
           send([m EXCEPT !.mode = "Connecting"],
                Event("Error", <<"CONNECT:">> \o SelectedSsid \o <<":">>))
      [] m.mode = "Normal" /\ k = "d" ->
           send([m EXCEPT !.mode = "Disconnecting"], Event("Error", <<"DISCONNECT:">>))
      [] m.mode = "Normal" /\ k = "f" ->
           send(m, Event("Error", <<"FORGET:">> \o SelectedSsid))
      [] m.mode = "Error" /\ k = "Esc" -> [m EXCEPT !.mode = "Normal"]
      [] OTHER -> m

\* A loop whose match has no arm for ConnectionChanged
main_dispatch_NoStatus(m, e) ==
    CASE e.type = "Key" -> AppMode_handle_key(m, e.arg)
      [] e.type = "NetworkScan" -> update_networks(m, e.arg)
      [] e.type = "NetworkEvent" -> handle_network_event(m, e.arg)
      [] e.type = "Error" -> handle_error_event(m, e.arg)
      [] OTHER -> m

\* The match of the main loop on the event taken from the queue
main_dispatch(m, e) ==
    CASE e.type = "Key" -> AppMode_handle_key(m, e.arg)
      [] e.type = "Tick" -> m
      [] e.type = "Resize" -> m
      [] e.type = "NetworkScan" -> update_networks(m, e.arg)
      [] e.type = "ConnectionChanged" -> update_connection_status(m, e.arg)
      [] e.type = "NetworkEvent" -> handle_network_event(m, e.arg)
      [] e.type = "Error" -> handle_error_event(m, e.arg)

-----------------------------------------------------------------------------
(* SpecMain: the main loop of src/main.rs, its producers and spawned units *)

MainKeys == {"q", "Enter", "d", "f", "Esc"}

\* Scan results: the SSIDs seen
ScanResults == {<<"a">>}

ConnectionStatus == {"Connected", "Disconnected", "Failed"}

SetMain(r) ==
    /\ amode' = r.mode
    /\ astatus' = r.status
    /\ anetworks' = r.networks
    /\ mquit' = r.should_quit
    /\ mqueue' = r.queue
    /\ mtasks' = r.tasks

\* The queue is unbounded: a handler's own send never waits for room
WithinMainBounds(r) ==
    /\ Len(r.queue) <= MaxMainQueue + 1
    /\ Len(r.tasks) <= MaxMainTasks

\* The input task of EventHandler::new forwards a key press
MainInput ==
    /\ \E k \in MainKeys : mqueue' = Append(mqueue, Event("Key", k))
    /\ Len(mqueue) < MaxMainQueue
    /\ UNCHANGED <<amode, astatus, anetworks, mquit, mtasks, lpc, cur, appVars, sigVars, shutVars, animVars, extVars>>

\* The tick task of EventHandler::new
MainTick ==
    /\ Len(mqueue) < MaxMainQueue
    /\ mqueue' = Append(mqueue, Event("Tick", <<>>))
    /\ UNCHANGED <<amode, astatus, anetworks, mquit, mtasks, lpc, cur, appVars, sigVars, shutVars, animVars, extVars>>

\* The backend forwards a NetworkEvent
MainNetworkEvent ==
    /\ Len(mqueue) < MaxMainQueue
    /\ \E st \in {"Connected", "Failed"} :
          mqueue' = Append(mqueue, Event("NetworkEvent", Event("ConnectionChanged", st)))
    /\ UNCHANGED <<amode, astatus, anetworks, mquit, mtasks, lpc, cur, appVars, sigVars, shutVars, animVars, extVars>>

\* A loop that would take the next event without waiting for the handler
MainNext_WhileHandling ==
    /\ mqueue # <<>>
    /\ lpc \in {"next", "handle"}
    /\ cur' = Some(Head(mqueue))
    /\ mqueue' = Tail(mqueue)
    /\ lpc' = "handle"
    /\ UNCHANGED <<amode, astatus, anetworks, mquit, mtasks, appVars, sigVars, shutVars, animVars, extVars>>

\* events.next().await returns the head of the queue
MainNext ==
    /\ lpc = "next"
    /\ mqueue # <<>>
    /\ cur' = Some(Head(mqueue))
    /\ mqueue' = Tail(mqueue)
    /\ lpc' = "handle"
    /\ UNCHANGED <<amode, astatus, anetworks, mquit, mtasks, appVars, sigVars, shutVars, animVars, extVars>>

\* The match arm of the taken event runs to its end
MainHandle ==
    /\ lpc = "handle"
    /\ LET r == main_dispatch(MainWorld, Unwrap(cur))
       IN WithinMainBounds(r) /\ SetMain(r)
    /\ cur' = None
    /\ lpc' = "check"
    /\ UNCHANGED <<appVars, sigVars, shutVars, animVars, extVars>>

\* A loop that goes on to the next event whatever the exit flag says
MainCheckQuit_Continue ==
    /\ lpc = "check"
    /\ lpc' = "next"
    /\ UNCHANGED <<amode, astatus, anetworks, mquit, mqueue, mtasks, cur, appVars, sigVars, shutVars, animVars, extVars>>

\* if app.should_quit { break; }
MainCheckQuit ==
    /\ lpc = "check"
    /\ lpc' = IF mquit THEN "exit" ELSE "next"
    /\ UNCHANGED <<amode, astatus, anetworks, mquit, mqueue, mtasks, cur, appVars, sigVars, shutVars, animVars, extVars>>

\* Unit i moves to pc and sends the events of out, in order
TaskStep(i, pc, out) ==
    /\ Len(mqueue) + Len(out) <= MaxMainQueue
    /\ mqueue' = mqueue \o out
    /\ mtasks' = [mtasks EXCEPT ![i].pc = pc, ![i].sent = @ + Len(out)]
    /\ UNCHANGED <<amode, astatus, anetworks, mquit, lpc, cur, appVars, sigVars, shutVars, animVars, extVars>>

\* NmBackend::new(...).await at the head of every unit: on Err the unit
\* ends without a word
MainTaskBackend ==
    \E i \in 1..Len(mtasks) :
       /\ mtasks[i].pc = "new"
       /\ \E ok \in BOOLEAN : TaskStep(i, IF ok THEN "rpc" ELSE "done", <<>>)

\* The first RPC of the unit: scan, current_connection, connect,
\* connect_hidden, forget_network or disconnect
MainTaskRpc ==
    \E i \in 1..Len(mtasks) :
       /\ mtasks[i].pc = "rpc"
       /\ CASE mtasks[i].kind = "scan" ->
                 \/ \E n \in ScanResults : TaskStep(i, "done", <<Event("NetworkScan", n)>>)
                 \/ TaskStep(i, "done", <<Event("Error", <<"Scan failed">>)>>)
            [] mtasks[i].kind = "conn" ->
                 \/ \E st \in {"Connected", "Disconnected"} :
                       TaskStep(i, "done", <<Event("ConnectionChanged", st)>>)
                 \/ TaskStep(i, "done", <<>>)
            [] mtasks[i].kind \in {"connect", "connect_hidden", "disconnect"} ->
                 \/ TaskStep(i, "sleep", <<>>)
                 \/ TaskStep(i, "done", <<Event("ConnectionChanged", "Failed")>>)
            [] mtasks[i].kind = "forget" ->
                 \/ TaskStep(i, "rescan", <<>>)
                 \/ TaskStep(i, "done", <<Event("Error", <<"Failed to forget">>)>>)

\* The settle delay followed at once by the re-scan, the connection not queried
MainTaskSleep_NoQuery ==
    \E i \in 1..Len(mtasks) :
       /\ mtasks[i].pc = "sleep"
       /\ TaskStep(i, "rescan", <<>>)

\* The settle delay ends: connect goes on to query the connection,
\* disconnect reports Disconnected
MainTaskSleep ==
    \E i \in 1..Len(mtasks) :
       /\ mtasks[i].pc = "sleep"
       /\ IF mtasks[i].kind = "disconnect"
          THEN TaskStep(i, "rescan", <<Event("ConnectionChanged", "Disconnected")>>)
          ELSE TaskStep(i, "query", <<>>)

\* backend.current_connection() of a connect unit: Ok(Some) reports
\* Connected, anything else Disconnected
MainTaskQuery ==
    \E i \in 1..Len(mtasks) :
       /\ mtasks[i].pc = "query"
       /\ \E st \in {"Connected", "Disconnected"} :
             TaskStep(i, "rescan", <<Event("ConnectionChanged", st)>>)

\* if let Ok(networks) = backend.scan().await { send NetworkScan }
MainTaskRescan ==
    \E i \in 1..Len(mtasks) :
       /\ mtasks[i].pc = "rescan"
       /\ \/ \E n \in ScanResults : TaskStep(i, "done", <<Event("NetworkScan", n)>>)
          \/ TaskStep(i, "done", <<>>)

\* The runtime drops a finished unit
MainTaskReap ==
    \E i \in 1..Len(mtasks) :
       /\ mtasks[i].pc = "done"
       /\ mtasks' = RemoveAt(mtasks, i)
       /\ UNCHANGED <<amode, astatus, anetworks, mquit, mqueue, lpc, cur, appVars, sigVars, shutVars, animVars, extVars>>

AppIdle == app = App_new /\ tasks = <<>>

\* main() up to the loop: mode Scanning, the initial scan and the fetch of
\* the current connection are spawned
InitMain ==
    /\ amode = "Scanning"
    /\ astatus = "Disconnected"
    /\ anetworks = <<>>
    /\ mquit = FALSE
    /\ mqueue = <<>>
    /\ mtasks = <<MainTask("scan", <<>>, None), MainTask("conn", <<>>, None)>>
    /\ lpc = "next"
    /\ cur = None
    /\ AppIdle
    /\ SigIdle
    /\ ShutIdle
    /\ AnimIdle
    /\ ExtIdle

NextMain ==
    \/ MainInput
    \/ MainTick
    \/ MainNetworkEvent
    \/ MainNext
    \/ MainHandle
    \/ MainCheckQuit
    \/ MainTaskBackend
    \/ MainTaskRpc
    \/ MainTaskSleep
    \/ MainTaskQuery
    \/ MainTaskRescan
    \/ MainTaskReap

SpecMain == InitMain /\ [][NextMain]_vars

-----------------------------------------------------------------------------
(* Claims on the main loop *)

\* Nothing is left that could deliver an event: every unit has ended and
\* been dropped, the queue is drained and no event is being handled
Quiescent ==
    /\ mtasks = <<>>
    /\ mqueue = <<>>
    /\ cur = None
    /\ lpc = "next"

\* C2: every busy state ends. Once every dispatched unit has ended and all
\* its events are handled, the machine is no longer Scanning, Connecting or
\* Disconnecting, whatever the outcome of the unit was.
C2_BusyEnds == (Quiescent /\ ~mquit) => amode \notin BusyModes

\* C3: a unit of work that has ended has published exactly one event.
C3_OneTerminalEvent ==
    \A i \in 1..Len(mtasks) : mtasks[i].pc = "done" => mtasks[i].sent = 1

AppFields == <<amode, astatus, anetworks, mquit>>

-----------------------------------------------------------------------------
(* src/network/signals.rs: the change-notification listener.  Time is in   *)
(* whole seconds; a timer fires at its deadline and the clock does not     *)
(* pass an armed deadline.                                                 *)

\* let debounce = Duration::from_secs(2)
debounce == 2
\* tokio::time::interval(Duration::from_secs(15)) of the fallback poll
FallbackPeriod == 15
\* tokio::time::interval(Duration::from_secs(5)) of the polling fallback
PollPeriod == 5

\* A message of the bus connection as the listener sees it: its type, the
\* member of its header (None for a method reply) and its object path
Message(type, member, path) == [type |-> type, member |-> member, path |-> path]

\* What MessageStream::from(&conn) yields: the PropertiesChanged of the WiFi
\* device, the PropertiesChanged of another object, another signal, and the
\* reply to a method call made on the same connection
Messages ==
    {Message("Signal", Some("PropertiesChanged"), "device"),
     Message("Signal", Some("PropertiesChanged"), "other"),
     Message("Signal", Some("NameOwnerChanged"), "bus"),
     Message("MethodReturn", None, "")}

\* The MatchRule of subscribe_device_signals
MatchRule(msg) ==
    /\ msg.type = "Signal"
    /\ msg.member = Some("PropertiesChanged")
    /\ msg.path = "device"

\* tx.send(Event::Command(NetworkCommand::RefreshConnection))
publish(c, by) == [c EXCEPT !.refreshes = Append(@, [at |-> now, by |-> by])]

\* A successful subscription that spawns the 5 s poll as well
SigSubscribeOk_AlsoPoll ==
    /\ slpc = "start"
    /\ sub' = [result |-> "ok", attempts |-> sub.attempts + 1]
    /\ last_signal' = now
    /\ timers' = [timers EXCEPT !.fallback = now, !.poll = now, !.since = now]
    /\ slpc' = "returned"
    /\ UNCHANGED <<now, chan, notes, appVars, mainVars, shutVars, animVars, extVars>>

\* subscribe_device_signals returns Ok: the rule is added, the debounce loop
\* and the 15 s fallback poll are spawned; start_signal_listener returns
SigSubscribeOk ==
    /\ slpc = "start"
    /\ sub' = [result |-> "ok", attempts |-> sub.attempts + 1]
    /\ last_signal' = now
    /\ timers' = [timers EXCEPT !.fallback = now, !.since = now]
    /\ slpc' = "returned"
    /\ UNCHANGED <<now, chan, notes, appVars, mainVars, shutVars, animVars, extVars>>

\* subscribe_device_signals returns Err: start_signal_listener spawns the
\* 5 s poll and returns
SigSubscribeErr ==
    /\ slpc = "start"
    /\ sub' = [result |-> "failed", attempts |-> sub.attempts + 1]
    /\ timers' = [timers EXCEPT !.poll = now, !.since = now]
    /\ slpc' = "returned"
    /\ UNCHANGED <<now, last_signal, chan, notes, appVars, mainVars, shutVars, animVars, extVars>>

\* The debounce loop with last_signal set by every PropertiesChanged, also
\* by one that is absorbed
Notify_Postpone(msg) ==
    LET is_props_changed == msg.member = Some("PropertiesChanged")
        pass == is_props_changed /\ now - last_signal >= debounce
    IN /\ notes' = Append(notes, [at |-> now, member |-> msg.member,
                                  msg |-> msg, sent |-> pass /\ chan.open])
       /\ last_signal' = IF is_props_changed THEN now ELSE last_signal
       /\ chan' = IF pass /\ chan.open THEN publish(chan, "signal") ELSE chan
       /\ UNCHANGED <<now, sub, slpc, timers, appVars, mainVars, shutVars, animVars,
                      extVars>>

\* The body of the debounce loop for one message of the stream: a refresh is
\* sent if it is a PropertiesChanged and last_signal.elapsed() >= debounce; a
\* failed send ends the loop
Notify(msg) ==
    LET is_props_changed == msg.member = Some("PropertiesChanged")
        pass == is_props_changed /\ now - last_signal >= debounce
    IN /\ notes' = Append(notes, [at |-> now, member |-> msg.member,
                                  msg |-> msg, sent |-> pass /\ chan.open])
       /\ last_signal' = IF pass THEN (IF chan.open THEN now ELSE -1)
                         ELSE last_signal
       /\ chan' = IF pass /\ chan.open THEN publish(chan, "signal") ELSE chan
       /\ UNCHANGED <<now, sub, slpc, timers, appVars, mainVars, shutVars, animVars,
                      extVars>>

\* stream.next() yields a message
SigNotify ==
    /\ last_signal >= 0
    /\ Len(notes) < MaxNotes
    /\ \E msg \in Messages : Notify(msg)

\* A fallback poll that re-arms one second late
SigFallbackFire_Slow ==
    /\ timers.fallback = now
    /\ IF chan.open
       THEN /\ chan' = publish(chan, "fallback")
            /\ timers' = [timers EXCEPT !.fallback = @ + FallbackPeriod + 1]
       ELSE /\ chan' = chan
            /\ timers' = [timers EXCEPT !.fallback = -1]
    /\ UNCHANGED <<now, sub, slpc, last_signal, notes, appVars, mainVars, shutVars, animVars, extVars>>

\* interval.tick() of the 15 s fallback poll completes
SigFallbackFire ==
    /\ timers.fallback = now
    /\ IF chan.open
       THEN /\ chan' = publish(chan, "fallback")
            /\ timers' = [timers EXCEPT !.fallback = @ + FallbackPeriod]
       ELSE /\ chan' = chan
            /\ timers' = [timers EXCEPT !.fallback = -1]
    /\ UNCHANGED <<now, sub, slpc, last_signal, notes, appVars, mainVars, shutVars, animVars, extVars>>

\* A poll that sends twice on every tick
SigPollFire_Burst ==
    /\ timers.poll = now
    /\ IF chan.open
       THEN /\ chan' = publish(publish(chan, "poll"), "poll")
            /\ timers' = [timers EXCEPT !.poll = @ + PollPeriod]
       ELSE /\ chan' = chan
            /\ timers' = [timers EXCEPT !.poll = -1]
    /\ UNCHANGED <<now, sub, slpc, last_signal, notes, appVars, mainVars, shutVars, animVars, extVars>>

\* interval.tick() of the 5 s poll completes
SigPollFire ==
    /\ timers.poll = now
    /\ IF chan.open
       THEN /\ chan' = publish(chan, "poll")
            /\ timers' = [timers EXCEPT !.poll = @ + PollPeriod]
       ELSE /\ chan' = chan
            /\ timers' = [timers EXCEPT !.poll = -1]
    /\ UNCHANGED <<now, sub, slpc, last_signal, notes, appVars, mainVars, shutVars, animVars, extVars>>

\* The receiver of the event queue is dropped
SigClose ==
    /\ chan.open
    /\ slpc = "returned"
    /\ chan' = [chan EXCEPT !.open = FALSE]
    /\ UNCHANGED <<now, sub, slpc, last_signal, timers, notes, appVars, mainVars, shutVars, animVars, extVars>>

\* One second passes; no armed timer is overdue
SigTick ==
    /\ now < MaxTime
    /\ slpc = "start" => now < MaxStartDelay
    /\ timers.fallback # now
    /\ timers.poll # now
    /\ now' = now + 1
    /\ UNCHANGED <<sub, slpc, last_signal, timers, chan, notes, appVars, mainVars, shutVars, animVars, extVars>>

InitListener ==
    /\ SigIdle
    /\ ShutIdle
    /\ AnimIdle
    /\ AppIdle
    /\ MainIdle
    /\ ExtIdle

NextListener ==
    \/ SigSubscribeOk
    \/ SigSubscribeErr
    \/ SigNotify
    \/ SigFallbackFire
    \/ SigPollFire
    \/ SigClose
    \/ SigTick

SpecListener == InitListener /\ [][NextListener]_vars

-----------------------------------------------------------------------------
(* Claims on the listener *)

PropNotes == {i \in 1..Len(notes) : notes[i].member = Some("PropertiesChanged")}

SentOf(i) == IF notes[i].sent THEN 1 ELSE 0

\* C8: debounce. Of any two property-change notifications received while the
\* queue is open, exactly one publishes a RefreshConnection if they arrive
\* less than the 2 s interval apart, and both publish one if they arrive
\* more than the interval apart.
C8_Debounce ==
    chan.open =>
        \A i, j \in PropNotes :
            i < j =>
               /\ notes[j].at - notes[i].at < debounce => SentOf(i) + SentOf(j) = 1
               /\ notes[j].at - notes[i].at > debounce => SentOf(i) + SentOf(j) = 2

\* C9: after a successful subscription, every 15 s window that has elapsed
\* while the queue is open holds at least one published RefreshConnection,
\* whatever happened to the notifications.
C9_FallbackBound ==
    (sub.result = "ok" /\ chan.open) =>
        \A t \in timers.since..(now - FallbackPeriod) :
            \E i \in 1..Len(chan.refreshes) :
                chan.refreshes[i].at \in t..(t + FallbackPeriod)

\* More than one window has elapsed and every notification was dropped
C9_Witness ==
    /\ sub.result = "ok"
    /\ chan.open
    /\ now > timers.since + FallbackPeriod
    /\ notes # <<>>
    /\ \A i \in 1..Len(notes) : ~notes[i].sent

-----------------------------------------------------------------------------
(* SpecShutdown: the producer loops of src/event.rs and                    *)
(* src/network/signals.rs against the cleanup of src/main.rs.  Time is in   *)
(* milliseconds; the listener and its pollers run on a scale of seconds and *)
(* may fire at any moment of the shutdown.                                  *)

\* EventHandler::new(33)
TickRateMs == 33
\* tokio::time::sleep(Duration::from_millis(50)) of the cleanup
CleanupSleepMs == 50

\* tx.send(..) by producer p: it fails once the receiver is dropped, and the
\* loop returns on the failure
send_from(p) ==
    IF rx_open
    THEN /\ closed_sends' = closed_sends
         /\ ppc' = [ppc EXCEPT ![p] = IF p = "input" THEN "top" ELSE "wait"]
    ELSE /\ closed_sends' = closed_sends \cup {p}
         /\ ppc' = [ppc EXCEPT ![p] = "exited"]

\* Input task, head of the loop: if input_stop.load() { return }
ShutInputTop ==
    /\ ppc["input"] = "top"
    /\ ppc' = [ppc EXCEPT !["input"] = IF stop THEN "exited" ELSE "read"]
    /\ UNCHANGED <<stop, rx_open, cleanup, tick_left, sleep_left, closed_sends,
                   published,
                   appVars, mainVars, sigVars, animVars, extVars>>

\* reader.next().await completes: the terminal delivered an event
ShutInputArrives ==
    /\ ppc["input"] = "read"
    /\ ppc' = [ppc EXCEPT !["input"] = "got"]
    /\ UNCHANGED <<stop, rx_open, cleanup, tick_left, sleep_left, closed_sends,
                   published,
                   appVars, mainVars, sigVars, animVars, extVars>>

\* Input task after the await: the flag is read again, then the key is sent
ShutInputSend ==
    /\ ppc["input"] = "got"
    /\ IF stop
       THEN /\ ppc' = [ppc EXCEPT !["input"] = "exited"]
            /\ closed_sends' = closed_sends
       ELSE send_from("input")
    /\ UNCHANGED <<stop, rx_open, cleanup, tick_left, sleep_left,
                   published,
                   appVars, mainVars, sigVars, animVars, extVars>>

\* Tick task: interval.tick() completes, the flag is read, Tick is sent
ShutTickFire ==
    /\ ppc["tick"] = "wait"
    /\ tick_left = 0
    /\ IF stop
       THEN /\ ppc' = [ppc EXCEPT !["tick"] = "exited"]
            /\ closed_sends' = closed_sends
       ELSE send_from("tick")
    /\ tick_left' = TickRateMs
    /\ UNCHANGED <<stop, rx_open, cleanup, sleep_left,
                   published,
                   appVars, mainVars, sigVars, animVars, extVars>>

\* The debounce loop takes a notification that passes the debounce and sends
\* RefreshConnection; it reads no stop flag
ShutListenerSend ==
    /\ ppc["listener"] = "wait"
    /\ send_from("listener")
    /\ UNCHANGED <<stop, rx_open, cleanup, tick_left, sleep_left,
                   published,
                   appVars, mainVars, sigVars, animVars, extVars>>

\* The 5 s or 15 s poll: interval.tick() completes and RefreshConnection is
\* sent; it reads no stop flag
ShutPollSend ==
    /\ ppc["poll"] = "wait"
    /\ send_from("poll")
    /\ UNCHANGED <<stop, rx_open, cleanup, tick_left, sleep_left,
                   published,
                   appVars, mainVars, sigVars, animVars, extVars>>

\* The loop of main has ended: events.stop(), then the sleep begins
ShutStop ==
    /\ cleanup = "loop"
    /\ stop' = TRUE
    /\ cleanup' = "sleep"
    /\ sleep_left' = CleanupSleepMs
    /\ UNCHANGED <<rx_open, ppc, tick_left, closed_sends,
                   published,
                   appVars, mainVars, sigVars, animVars, extVars>>

\* The sleep is over; the terminal is restored
ShutWake ==
    /\ cleanup = "sleep"
    /\ sleep_left = 0
    /\ cleanup' = "restore"
    /\ UNCHANGED <<stop, rx_open, ppc, tick_left, sleep_left, closed_sends,
                   published,
                   appVars, mainVars, sigVars, animVars, extVars>>

\* main returns: its locals, the EventHandler with the receiver among them,
\* are dropped
ShutReturn ==
    /\ cleanup = "restore"
    /\ rx_open' = FALSE
    /\ cleanup' = "returned"
    /\ UNCHANGED <<stop, ppc, tick_left, sleep_left, closed_sends,
                   published,
                   appVars, mainVars, sigVars, animVars, extVars>>

\* The runtime shuts down and drops every task that is still alive
ShutRuntimeDrop ==
    /\ cleanup = "returned"
    /\ cleanup' = "down"
    /\ ppc' = [p \in Producers |-> IF ppc[p] = "exited" THEN "exited" ELSE "cancelled"]
    /\ UNCHANGED <<stop, rx_open, tick_left, sleep_left, closed_sends,
                   published,
                   appVars, mainVars, sigVars, animVars, extVars>>

\* One millisecond passes; neither the tick nor the sleep is overdue
ShutTime ==
    /\ cleanup # "down"
    /\ ppc["tick"] = "wait" => tick_left > 0
    /\ cleanup = "sleep" => sleep_left > 0
    /\ ppc["tick"] = "wait" \/ cleanup = "sleep"
    /\ tick_left' = IF ppc["tick"] = "wait" THEN tick_left - 1 ELSE tick_left
    /\ sleep_left' = IF cleanup = "sleep" THEN sleep_left - 1 ELSE sleep_left
    /\ UNCHANGED <<stop, rx_open, ppc, cleanup, closed_sends,
                   published,
                   appVars, mainVars, sigVars, animVars, extVars>>

\* The loop of main is running and every producer is in its loop
InitShutdown ==
    /\ stop = FALSE
    /\ rx_open = TRUE
    /\ ppc = [p \in Producers |-> IF p = "input" THEN "top" ELSE "wait"]
    /\ cleanup = "loop"
    /\ tick_left = 0
    /\ sleep_left = 0
    /\ closed_sends = {}
    /\ published = <<>>
    /\ AppIdle
    /\ MainIdle
    /\ SigIdle
    /\ AnimIdle
    /\ ExtIdle

NextShutdown ==
    \/ ShutInputTop
    \/ ShutInputArrives
    \/ ShutInputSend
    \/ ShutTickFire
    \/ ShutListenerSend
    \/ ShutPollSend
    \/ ShutStop
    \/ ShutWake
    \/ ShutReturn
    \/ ShutRuntimeDrop
    \/ ShutTime

SpecShutdown == InitShutdown /\ [][NextShutdown]_vars

\* C11: when the queue is dropped every producer loop has already exited,
\* and no producer has ever sent on the closed channel.
C11_ProducersExitBeforeDrop ==
    /\ ~rx_open => \A p \in Producers : ppc[p] = "exited"
    /\ closed_sends = {}

-----------------------------------------------------------------------------
(* Claims on connecting and quitting, src/app.rs *)

\* Input is blocked in w: every key but the quit key leaves w as it is
Blocked(w) ==
    \A k \in AppKeys \ {"q"} : handle_event(w, KeyEvent(k), None) = w

SelectedAp(w) == Unwrap(get(filtered_aps(w), w.wifi_state.selected_index))

\* r holds exactly one unit more than w: a connect to ssid with password
DispatchedConnect(w, r, ssid, password) ==
    /\ Len(r.tasks) = Len(w.tasks) + 1
    /\ SubSeq(r.tasks, 1, Len(w.tasks)) = w.tasks
    /\ r.tasks[Len(r.tasks)].kind \in {"connect", "activate"}
    /\ r.tasks[Len(r.tasks)].ssid = ssid
    /\ r.tasks[Len(r.tasks)].password = password

\* C12: from Normal, the connect key on an open access point that is not the
\* active one dispatches exactly one connect without password and makes the
\* machine busy; after the terminal event of that connect the mode is Normal.
C12_OpenConnect ==
    (ConnectRequestable(World) /\ SelectedAp(World).security = "Open") =>
        LET r == handle_event(World, KeyEvent("Enter"), None)
        IN /\ DispatchedConnect(World, r, SelectedAp(World).ssid, None)
           /\ Blocked(r)
           /\ handle_event([r EXCEPT !.tasks = tasks],
                           ActionSuccess("Connecting"), None).mode = "Normal"

\* C13: from Normal, the connect key on an access point that needs a
\* credential and is not saved opens the password prompt for its SSID and
\* dispatches nothing; on any other access point that is not the active one
\* it dispatches a connect without prompting and makes the machine busy.
C13_PromptOrConnect ==
    ConnectRequestable(World) =>
        LET ap == SelectedAp(World)
            r == handle_event(World, KeyEvent("Enter"), None)
        IN IF ap.security # "Open" /\ ~ap.is_saved
           THEN /\ r.mode = "Input"
                /\ r.input_dialog.visible
                /\ r.input_dialog.title = <<"Connect to ">> \o ap.ssid
                /\ r.tasks = tasks
           ELSE /\ DispatchedConnect(World, r, ap.ssid, None)
                /\ r.mode = "Normal"
                /\ ~r.input_dialog.visible
                /\ Blocked(r)

\* The password prompt of a connect is open, with or without text typed
PasswordPromptOpen(w) ==
    /\ w.mode = "Input"
    /\ Len(w.input_dialog.title) > 0
    /\ w.input_dialog.title[1] = "Connect to "

\* C14: submitting the password prompt dispatches exactly one connect for the
\* SSID of the prompt, with the typed text as password, or with no password
\* when nothing was typed, and makes the machine busy.
C14_SubmitPassword ==
    PasswordPromptOpen(World) =>
        LET r == handle_event(World, KeyEvent("Enter"), None)
            typed == app.input_dialog.input
        IN /\ DispatchedConnect(World, r, Tail(app.input_dialog.title),
                                IF typed = <<>> THEN None ELSE Some(typed))
           /\ Blocked(r)

QuitKeys == {"q", "Q", "C-c"}

\* C17: in every mode, with no operation outstanding, a quit key sets the
\* exit flag.
C17_QuitEverywhere ==
    (~DeviceBusy /\ ~app.wifi_state.scanning) =>
        \E k \in QuitKeys : handle_event(World, KeyEvent(k), None).should_quit

-----------------------------------------------------------------------------
(* Claims on the status and the exit flag, src/main.rs *)

C18_QuitIsFinal ==
    [][mquit =>
          /\ mquit'
          /\ cur' = None
          /\ AppFields' = AppFields
          /\ Len(mqueue') >= Len(mqueue)]_vars

\* The loop has ended with an event still in the queue
C18_Witness ==
    /\ mquit
    /\ lpc = "exit"
    /\ mqueue # <<>>

-----------------------------------------------------------------------------
(* SpecAnim: the network list of the main.rs iteration with its animation  *)
(* fields.  smooth_signals is src/animation/transitions.rs; the merge of a *)
(* scan result into the list belongs to App::update_networks, which is not *)
(* among the sources and follows the specification.  Signal values are     *)
(* whole numbers and the blend factor is one half.                         *)

\* if net.seen_ticks < 60
SEEN_CAP == 60

Ssids == {"a", "b"}
Signals == {4, 8}

WiFiNetwork(ssid, signal_strength) ==
    [ssid |-> ssid, signal_strength |-> signal_strength,
     display_signal |-> 0, seen_ticks |-> 0]

\* current + (target - current) * factor, with factor = 1/2
ease_out(current, target) == current + ((target - current) \div 2)

smooth_signals(networks) ==
    [i \in 1..Len(networks) |->
        [networks[i] EXCEPT
            !.display_signal = ease_out(@, networks[i].signal_strength),
            !.seen_ticks = IF @ < SEEN_CAP THEN @ + 1 ELSE @]]

\* The list replaced by a scan result, the animation fields carried over by
\* SSID
merge_networks(old, new) ==
    [i \in 1..Len(new) |->
        IF \E j \in 1..Len(old) : old[j].ssid = new[i].ssid
        THEN LET j == CHOOSE j \in 1..Len(old) : old[j].ssid = new[i].ssid
             IN [new[i] EXCEPT !.display_signal = old[j].display_signal,
                               !.seen_ticks = old[j].seen_ticks]
        ELSE new[i]]

\* Results of backend.scan(): up to two networks with distinct SSIDs
ScanLists ==
    {<<>>}
    \cup {<<WiFiNetwork(a, x)>> : a \in Ssids, x \in Signals}
    \cup {l \in {<<WiFiNetwork(a, x), WiFiNetwork(b, y)>> :
                     a \in Ssids, b \in Ssids, x \in Signals, y \in Signals} :
              l[1].ssid # l[2].ssid}

\* Event::Tick: app.tick() smooths the list
AnimTick ==
    /\ \A i \in 1..Len(nets) : nets[i].seen_ticks < MaxSeen
    /\ nets' = smooth_signals(nets)
    /\ UNCHANGED <<appVars, mainVars, sigVars, shutVars, extVars>>

\* The loop storing the scan result as it came
AnimScan_Assign(new) ==
    /\ nets' = new
    /\ UNCHANGED <<appVars, mainVars, sigVars, shutVars, extVars>>

\* Event::NetworkScan(new): app.update_networks(new)
AnimScan(new) ==
    /\ nets' = merge_networks(nets, new)
    /\ UNCHANGED <<appVars, mainVars, sigVars, shutVars, extVars>>

AnimScanResult == \E new \in ScanLists : AnimScan(new)

InitAnim ==
    /\ nets = <<>>
    /\ AppIdle
    /\ MainIdle
    /\ SigIdle
    /\ ShutIdle
    /\ ExtIdle

NextAnim == AnimTick \/ AnimScanResult

SpecAnim == InitAnim /\ [][NextAnim]_vars

\* res is the list new, each network whose SSID is in old with the display
\* value and the seen count it had in old, the others as they came
MergedBySsid(old, new, res) ==
    /\ Len(res) = Len(new)
    /\ \A i \in 1..Len(new) :
          /\ res[i].ssid = new[i].ssid
          /\ res[i].signal_strength = new[i].signal_strength
          /\ \A j \in 1..Len(old) :
                old[j].ssid = new[i].ssid =>
                   /\ res[i].display_signal = old[j].display_signal
                   /\ res[i].seen_ticks = old[j].seen_ticks
          /\ (\A j \in 1..Len(old) : old[j].ssid # new[i].ssid) => res[i] = new[i]

-----------------------------------------------------------------------------
(* SpecDiag: the Diagnostics page of src/app.rs and the input dialog it    *)
(* opens, with a character of more than one byte among the keys            *)

\* The keys the user presses on the Diagnostics page and in its prompt
DiagKeys == {"5", "j", "Enter", "Esc", "x", "U+00E9", "Backspace", "Delete", "Left"}

\* handle_event has panicked: the consumer loop has unwound
Panicked(w) == w.input_dialog.panicked

DiagKey ==
    /\ ~app.should_quit
    /\ ~Panicked(app)
    /\ \E k \in DiagKeys, resolved \in DnsResults : Deliver(World, KeyEvent(k), resolved)

DiagLine == ~Panicked(app) /\ AppDiagLine

DiagDone == ~Panicked(app) /\ AppDiagDone

NextDiag ==
    \/ DiagKey
    \/ DiagLine
    \/ DiagDone

SpecDiag == InitApp /\ [][NextDiag]_vars

\* C19: handling an event never waits on an external collaborator: whatever
\* key is handled in whatever state, the state the handler leaves is the same
\* for every answer the DNS resolver could give, so no answer was waited for.
C19_HandlerNeverWaits ==
    \A k \in DiagKeys, r1 \in DnsResults, r2 \in DnsResults :
        handle_event(World, KeyEvent(k), r1) = handle_event(World, KeyEvent(k), r2)

\* C20: no sequence of keys, characters of several bytes typed into the input
\* dialog included, makes the handler panic.
C20_NeverPanics == ~Panicked(app)

-----------------------------------------------------------------------------
(* SpecStats: src/network/stats.rs, StatsPoller::poll driven by the        *)
(* answers of /sys/class/net                                               *)

HISTORY_MAX == 60

Ifaces == {"a", "b"}

\* The files read_stat reads of one interface
StatNames == {"rx_bytes", "tx_bytes", "rx_packets", "tx_packets", "rx_errors",
              "tx_errors", "rx_dropped", "tx_dropped"}

\* InterfaceStats::default
InterfaceStats_default ==
    [rx_bytes |-> 0, tx_bytes |-> 0, rx_packets |-> 0, tx_packets |-> 0,
     rx_errors |-> 0, tx_errors |-> 0, rx_dropped |-> 0, tx_dropped |-> 0,
     rx_rate |-> 0, tx_rate |-> 0, rx_history |-> <<>>, tx_history |-> <<>>]

\* Result::unwrap_or
unwrap_or(res, default) == IF IsSome(res) THEN Unwrap(res) ELSE default

saturating_sub_Plain(x, y) == x - y

\* u64::saturating_sub
saturating_sub(x, y) == IF x >= y THEN x - y ELSE 0

HashMap_insert(map, key, value) ==
    [x \in DOMAIN map \cup {key} |-> IF x = key THEN value ELSE map[x]]

HashMap_retain_All(map, keys) == map

\* HashMap::retain(|k, _| keys.contains(k))
HashMap_retain(map, keys) == [x \in DOMAIN map \cap keys |-> map[x]]

push_history_Unbounded(history, delta) == Append(history, delta)

\* Vec::push, then remove(0) when the length is over HISTORY_MAX
push_history(history, delta) ==
    LET pushed == Append(history, delta)
    IN IF Len(pushed) > HISTORY_MAX THEN Tail(pushed) ELSE pushed

\* The body of the loop with the counters stored but no previous sample kept
poll_iface_NoPrevious(p, iface, read) ==
    LET found == IF iface \in DOMAIN p.stats THEN p.stats[iface]
                 ELSE InterfaceStats_default
    IN [previous |-> p.previous,
        stats |-> HashMap_insert(p.stats, iface,
                     [found EXCEPT !.rx_bytes = unwrap_or(read[iface]["rx_bytes"], 0),
                                   !.tx_bytes = unwrap_or(read[iface]["tx_bytes"], 0)])]

\* The body of the loop of poll for one interface; read[iface][stat] is the
\* result of read_stat: Some(value) or None for an Err
poll_iface(p, iface, read) ==
    LET rx == unwrap_or(read[iface]["rx_bytes"], 0)
        tx == unwrap_or(read[iface]["tx_bytes"], 0)
        found == IF iface \in DOMAIN p.stats THEN p.stats[iface]
                 ELSE InterfaceStats_default
        entry == [found EXCEPT
                    !.rx_bytes = rx,
                    !.tx_bytes = tx,
                    !.rx_packets = unwrap_or(read[iface]["rx_packets"], 0),
                    !.tx_packets = unwrap_or(read[iface]["tx_packets"], 0),
                    !.rx_errors = unwrap_or(read[iface]["rx_errors"], 0),
                    !.tx_errors = unwrap_or(read[iface]["tx_errors"], 0),
                    !.rx_dropped = unwrap_or(read[iface]["rx_dropped"], 0),
                    !.tx_dropped = unwrap_or(read[iface]["tx_dropped"], 0)]
        rated == IF iface \in DOMAIN p.previous
                 THEN LET rx_delta == saturating_sub(rx, p.previous[iface][1])
                          tx_delta == saturating_sub(tx, p.previous[iface][2])
                      IN [entry EXCEPT
                            !.rx_rate = rx_delta,
                            !.tx_rate = tx_delta,
                            !.rx_history = push_history(@, rx_delta),
                            !.tx_history = push_history(@, tx_delta)]
                 ELSE entry
    IN [previous |-> HashMap_insert(p.previous, iface, <<rx, tx>>),
        stats |-> HashMap_insert(p.stats, iface, rated)]

\* for iface in &interfaces
RECURSIVE poll_each(_, _, _)
poll_each(p, interfaces, read) ==
    IF interfaces = <<>> THEN p
    ELSE poll_each(poll_iface(p, Head(interfaces), read), Tail(interfaces), read)

Range(seq) == {seq[i] : i \in 1..Len(seq)}

\* poll without its two retain calls
poll_NoRetain(p, listing, read) ==
    IF ~IsSome(listing) THEN p ELSE poll_each(p, Unwrap(listing), read)

\* StatsPoller::poll; listing is the result of list_interfaces: Some(names)
\* or None for an Err
poll(p, listing, read) ==
    IF ~IsSome(listing) THEN p
    ELSE LET interfaces == Unwrap(listing)
             sampled == poll_each(p, interfaces, read)
         IN [previous |-> HashMap_retain(sampled.previous, Range(interfaces)),
             stats |-> HashMap_retain(sampled.stats, Range(interfaces))]

\* What list_interfaces can return
Listings == {None, Some(<<>>), Some(<<"a">>), Some(<<"b">>), Some(<<"a", "b">>)}

\* A cumulative counter as read after base: reset to 0, unchanged or advanced
Readings(base) == {0} \cup {base + d : d \in 0..MaxStep}

Previous(i, n) == IF i \in DOMAIN poller.previous THEN poller.previous[i][n] ELSE 0

\* The answers of read_stat in one poll: the interfaces listed read rx and tx,
\* the file named by fail (if any) cannot be read, every other counter file
\* holds 7, the files of an interface that is not listed do not exist
ReadOf(present, rx, tx, fail) ==
    [i \in Ifaces |->
        [c \in StatNames |->
            IF i \notin present \/ <<i, c>> = fail THEN None
            ELSE Some(CASE c = "rx_bytes" -> rx[i]
                        [] c = "tx_bytes" -> tx[i]
                        [] OTHER -> 7)]]

\* The interfaces of the latest enumeration that succeeded, and those of all
\* enumerations so far
LastListed ==
    IF ~IsSome(sysfs) THEN {}
    ELSE IF IsSome(Unwrap(sysfs).listing) THEN Range(Unwrap(Unwrap(sysfs).listing))
    ELSE Unwrap(sysfs).last

EverListed ==
    IF ~IsSome(sysfs) THEN {}
    ELSE Unwrap(sysfs).ever \cup Range(unwrap_or(Unwrap(sysfs).listing, <<>>))

\* The record of one poll: its answers, and what was enumerated before it
Answered(listing, read) ==
    Some([listing |-> listing, read |-> read, last |-> LastListed, ever |-> EverListed])

\* poll() giving up at the first counter file it cannot read
StatPoll_Abort(listing, read) ==
    /\ warm = 0
    /\ polls < MaxPolls
    /\ poller' = IF \E i \in Ifaces, c \in StatNames :
                       i \in Range(unwrap_or(listing, <<>>)) /\ ~IsSome(read[i][c])
                 THEN poller ELSE poll(poller, listing, read)
    /\ polls' = polls + 1
    /\ sysfs' = Answered(listing, read)
    /\ UNCHANGED <<warm, counters, appVars, mainVars, sigVars, shutVars, animVars,
                   slideVars, apVars>>

\* One call of poll()
StatPoll(listing, read) ==
    /\ warm = 0
    /\ polls < MaxPolls
    /\ poller' = poll(poller, listing, read)
    /\ polls' = polls + 1
    /\ sysfs' = Answered(listing, read)
    /\ UNCHANGED <<warm, counters, appVars, mainVars, sigVars, shutVars, animVars,
                   slideVars, apVars>>

\* poll() with list_interfaces failing
StatPollListErr == StatPoll(None, ReadOf({}, [i \in Ifaces |-> 0], [i \in Ifaces |-> 0], <<>>))

\* The counter files whose read is let fail
FailNames == {"rx_bytes", "tx_packets"}

\* poll() with the interfaces listed and at most one counter file unreadable:
\* the counters of "a" are reset, unchanged or advanced, those of "b" advance
StatPollListed ==
    \E listing \in Listings \ {None} :
        LET present == Range(Unwrap(listing))
            Drawn(i, n) == IF i \notin present THEN {0}
                           ELSE IF i = "a" THEN Readings(Previous(i, n))
                           ELSE {Previous(i, n) + 1}
        IN \E rxa \in Drawn("a", 1), txa \in Drawn("a", 2),
              rxb \in Drawn("b", 1), txb \in Drawn("b", 2),
              fail \in {<<>>} \cup (present \X FailNames) :
              StatPoll(listing,
                       ReadOf(present,
                              [i \in Ifaces |-> IF i = "a" THEN rxa ELSE rxb],
                              [i \in Ifaces |-> IF i = "a" THEN txa ELSE txb],
                              fail))

\* One poll() of a long steady run: the single interface "a" is listed, its rx
\* counter advances every second poll, every file is read
StatWarmPoll ==
    /\ warm > 0
    /\ LET n == (HISTORY_MAX - warm) \div 2
           read == ReadOf({"a"}, [i \in Ifaces |-> n], [i \in Ifaces |-> 0], <<>>)
       IN /\ poller' = poll(poller, Some(<<"a">>), read)
          /\ sysfs' = Answered(Some(<<"a">>), read)
    /\ warm' = warm - 1
    /\ UNCHANGED <<polls, counters, appVars, mainVars, sigVars, shutVars, animVars,
                   slideVars, apVars>>

\* The poller is new; the polls either start at once or after a steady run
\* that fills the histories up to one below the cap
InitStats ==
    /\ poller = StatsPoller_new
    /\ polls = 0
    /\ sysfs = None
    /\ warm \in {0, HISTORY_MAX}
    /\ counters = HashMap_new
    /\ AppIdle
    /\ MainIdle
    /\ SigIdle
    /\ ShutIdle
    /\ AnimIdle
    /\ SlideIdle
    /\ ApIdle

NextStats == StatWarmPoll \/ StatPollListErr \/ StatPollListed

SpecStats == InitStats /\ [][NextStats]_vars

\* A step is one call of poll(); In is what /sys/class/net answered in it
Polled == polls' # polls \/ warm' # warm
In == Unwrap(sysfs')
Enumerated == IsSome(In.listing)
Present == Range(unwrap_or(In.listing, <<>>))

\* C21: the rx and the tx history of every interface hold at most HISTORY_MAX
\* samples after every poll; a sample pushed onto a history that is
\* at the cap evicts the oldest one: the rest keeps its order and the sample
\* just pushed (the interface's rate) is the last element.
C21_HistoryBounded ==
    [][Polled =>
         \A i \in DOMAIN poller'.stats :
            LET new == poller'.stats[i]
            IN /\ Len(new.rx_history) <= HISTORY_MAX
               /\ Len(new.tx_history) <= HISTORY_MAX
               /\ (Enumerated /\ i \in DOMAIN poller.stats
                      /\ Len(poller.stats[i].rx_history) = HISTORY_MAX) =>
                     /\ new.rx_history =
                           Append(Tail(poller.stats[i].rx_history), new.rx_rate)
                     /\ new.tx_history =
                           Append(Tail(poller.stats[i].tx_history), new.tx_rate)]_vars

\* Two polls after the histories of "a" held HISTORY_MAX - 1 samples: the
\* oldest sample (0) is gone, the second (1) is now the first, the sample
\* just pushed is the last
C21_Witness ==
    /\ polls = 2
    /\ "a" \in DOMAIN poller.stats
    /\ Len(poller.stats["a"].rx_history) = HISTORY_MAX
    /\ poller.stats["a"].rx_history[1] = 1
    /\ poller.stats["a"].rx_rate = 1
    /\ poller.stats["a"].rx_history[HISTORY_MAX] = 1
    /\ poller.stats["a"].rx_history[HISTORY_MAX - 1] = 0

Max0(x) == IF x > 0 THEN x ELSE 0

\* C22: for every interface that has a previous sample, the rates poll()
\* stores are max(0, current - previous) of the rx and of the tx counter: 0
\* for two equal readings and 0, never negative, when the counter went
\* backwards.
C22_RateIsSaturatingDelta ==
    [][(Polled /\ Enumerated) =>
         \A i \in Present \cap In.last :
            LET new == poller'.stats[i]
            IN /\ new.rx_rate = Max0(new.rx_bytes - poller.stats[i].rx_bytes)
               /\ new.tx_rate = Max0(new.tx_bytes - poller.stats[i].tx_bytes)
               /\ new.rx_rate >= 0
               /\ new.tx_rate >= 0
               /\ new.rx_bytes = poller.stats[i].rx_bytes => new.rx_rate = 0]_vars

\* The rx counter of "a" went backwards in the last poll: the sample before
\* had a positive rate, the counter now reads 0 and the rate is 0
C22_Witness ==
    /\ IsSome(sysfs)
    /\ "a" \in DOMAIN poller.stats
    /\ Unwrap(sysfs).read["a"]["rx_bytes"] = Some(0)
    /\ Len(poller.stats["a"].rx_history) >= 2
    /\ poller.stats["a"].rx_history[Len(poller.stats["a"].rx_history) - 1] > 0
    /\ poller.stats["a"].rx_rate = 0

\* C23: the first poll in which an interface is enumerated, also after it had
\* vanished, only records its counters as the baseline: its rates are 0 and
\* its histories are empty; a rate is appended from the second consecutive
\* sample on.
C23_FirstSampleIsBaseline ==
    [][(Polled /\ Enumerated) =>
         \A i \in Present :
            LET new == poller'.stats[i]
            IN /\ poller'.previous[i] = <<new.rx_bytes, new.tx_bytes>>
               /\ i \notin In.last =>
                     /\ new.rx_rate = 0 /\ new.tx_rate = 0
                     /\ new.rx_history = <<>> /\ new.tx_history = <<>>
               /\ i \in In.last =>
                     /\ new.rx_history # <<>> /\ new.tx_history # <<>>
                     /\ new.rx_history[Len(new.rx_history)] = new.rx_rate
                     /\ new.tx_history[Len(new.tx_history)] = new.tx_rate]_vars

\* "a" was enumerated, vanished and is enumerated again in the last poll, with
\* a counter that has advanced: it is at its baseline
C23_Witness ==
    /\ IsSome(sysfs)
    /\ "a" \in Unwrap(sysfs).ever
    /\ "a" \notin Unwrap(sysfs).last
    /\ Unwrap(sysfs).read["a"]["rx_bytes"] = Some(1)
    /\ "a" \in DOMAIN poller.stats
    /\ poller.stats["a"].rx_bytes = 1
    /\ poller.stats["a"].rx_rate = 0
    /\ poller.stats["a"].rx_history = <<>>

\* C24: an interface that was enumerated by one poll and is not enumerated by
\* the next has, when that poll is over, no entry in the statistics map and
\* none in the previous-sample map.
C24_AbsentIsPurged ==
    [][(Polled /\ Enumerated) =>
         /\ DOMAIN poller'.stats = Present
         /\ DOMAIN poller'.previous = Present
         /\ \A i \in In.last \ Present :
               i \notin DOMAIN poller'.stats /\ i \notin DOMAIN poller'.previous]_vars

\* The last poll enumerated "b" only; "a", which the poll before had
\* enumerated, is gone
C24_Witness ==
    /\ IsSome(sysfs)
    /\ "a" \in Unwrap(sysfs).last
    /\ Unwrap(sysfs).listing = Some(<<"b">>)
    /\ DOMAIN poller.stats = {"b"}
    /\ DOMAIN poller.previous = {"b"}

\* C25: a counter file that cannot be read does not end poll(): the counter
\* is taken as 0 for this sample, and every counter that was read, of this
\* and of every other enumerated interface, is stored.
C25_ReadFailureIsZero ==
    [][(Polled /\ Enumerated) =>
         \A i \in Present :
            /\ i \in DOMAIN poller'.stats
            /\ \A c \in StatNames :
                  poller'.stats[i][c] = unwrap_or(In.read[i][c], 0)]_vars

\* rx_bytes of "a" could not be read in the last poll: it is stored as 0, the
\* other counters of "a" and those of "b" are stored as read
C25_Witness ==
    /\ IsSome(sysfs)
    /\ Unwrap(sysfs).listing = Some(<<"a", "b">>)
    /\ Unwrap(sysfs).read["a"]["rx_bytes"] = None
    /\ poller.stats["a"].rx_bytes = 0
    /\ poller.stats["a"].tx_packets = 7
    /\ poller.stats["b"].rx_bytes = 2
    /\ poller.stats["b"].rx_rate = 1

-----------------------------------------------------------------------------
(* SpecSlide: src/animation/mod.rs, the AnimationState under ticks and     *)
(* starts of the dialog slide and of the spinner                           *)

\* u64::wrapping_add; the ticks of the model stay far below 2^64
wrapping_add(x, y) == x + y

\* self.active & flag != 0
has_flag(active, flag) == (active \div flag) % 2 = 1

set_flag(active, flag) == IF has_flag(active, flag) THEN active ELSE active + flag

clear_flag(active, flag) == IF has_flag(active, flag) THEN active - flag ELSE active

Min(x, y) == IF x <= y THEN x ELSE y

\* ease_out_cubic of elapsed / duration, as a numerator over Cube(duration):
\* 1 - (1 - t)^3
ease_out_cubic(elapsed, duration) == Cube(duration) - Cube(duration - elapsed)

\* tick that never ends the slide
AnimationState_tick_NoEnd(a) ==
    LET counted == [a EXCEPT !.tick_count = wrapping_add(@, 1)]
    IN IF has_flag(a.active, FLAG_DIALOG_SLIDE)
       THEN [counted EXCEPT
               !.dialog_elapsed = @ + 1,
               !.dialog_t = ease_out_cubic(Min(a.dialog_elapsed + 1, a.dialog_duration),
                                           a.dialog_duration)]
       ELSE counted

\* AnimationState::tick
AnimationState_tick(a) ==
    LET counted == [a EXCEPT !.tick_count = wrapping_add(@, 1)]
    IN IF has_flag(a.active, FLAG_DIALOG_SLIDE)
       THEN LET elapsed == a.dialog_elapsed + 1
                \* t = (elapsed / duration).min(1.0), in ticks
                t == Min(elapsed, a.dialog_duration)
            IN IF t >= a.dialog_duration
               THEN [counted EXCEPT
                       !.dialog_elapsed = elapsed,
                       !.dialog_t = Cube(a.dialog_duration),
                       !.active = clear_flag(@, FLAG_DIALOG_SLIDE)]
               ELSE [counted EXCEPT
                       !.dialog_elapsed = elapsed,
                       !.dialog_t = ease_out_cubic(t, a.dialog_duration)]
       ELSE counted

start_dialog_slide(a) ==
    [a EXCEPT !.dialog_t = 0, !.dialog_elapsed = 0,
              !.active = set_flag(@, FLAG_DIALOG_SLIDE)]

start_spinner(a) == [a EXCEPT !.active = set_flag(@, FLAG_SPINNER)]

stop_spinner(a) == [a EXCEPT !.active = clear_flag(@, FLAG_SPINNER)]

\* max_offset * (1 - dialog_t), rounded up
dialog_y_offset(a) ==
    LET den == Cube(a.dialog_duration)
        remaining == 4 * (den - a.dialog_t)
    IN (remaining + den - 1) \div den

exceptSlide == <<appVars, mainVars, sigVars, shutVars, animVars, statVars, apVars>>

SlideTick ==
    /\ animation.tick_count < MaxAnimTicks
    /\ animation' = AnimationState_tick(animation)
    /\ since_start' = IF IsSome(since_start) THEN Some(Unwrap(since_start) + 1) ELSE None
    /\ UNCHANGED exceptSlide

SlideStart ==
    /\ animation' = start_dialog_slide(animation)
    /\ since_start' = Some(0)
    /\ UNCHANGED exceptSlide

SlideSpinnerStart ==
    /\ animation' = start_spinner(animation)
    /\ UNCHANGED <<since_start, exceptSlide>>

SlideSpinnerStop ==
    /\ animation' = stop_spinner(animation)
    /\ UNCHANGED <<since_start, exceptSlide>>

InitSlide ==
    /\ SlideIdle
    /\ StatIdle
    /\ AppIdle
    /\ MainIdle
    /\ SigIdle
    /\ ShutIdle
    /\ AnimIdle
    /\ ApIdle

NextSlide == SlideTick \/ SlideStart \/ SlideSpinnerStart \/ SlideSpinnerStop

SpecSlide == InitSlide /\ [][NextSlide]_vars

-----------------------------------------------------------------------------
(* The order of the steps of a connect unit (SpecMain) *)

\* The events a step has appended to the queue
Published == SubSeq(mqueue', Len(mqueue) + 1, Len(mqueue'))

\* C27: a connect unit goes through connect RPC, settle delay, query of the
\* current connection, re-scan, in this order; it publishes nothing before
\* the query, the connection status (Connected or Disconnected) with the
\* query and then at most the scan result with the re-scan; when the connect
\* RPC fails it publishes ConnectionChanged(Failed) alone and ends without
\* query and re-scan.
C27_ConnectStepOrder ==
    [][\A i \in 1..Len(mtasks) :
          (/\ Len(mtasks') = Len(mtasks)
           /\ mtasks[i].kind = "connect"
           /\ mtasks'[i].pc # mtasks[i].pc) =>
             LET from == mtasks[i].pc
                 to == mtasks'[i].pc
             IN CASE from = "new" -> to \in {"rpc", "done"} /\ Published = <<>>
                  [] from = "rpc" ->
                       \/ to = "sleep" /\ Published = <<>>
                       \/ /\ to = "done"
                          /\ Published = <<Event("ConnectionChanged", "Failed")>>
                          /\ mtasks'[i].sent = 1
                  [] from = "sleep" -> to = "query" /\ Published = <<>>
                  [] from = "query" ->
                       /\ to = "rescan"
                       /\ \E st \in {"Connected", "Disconnected"} :
                             Published = <<Event("ConnectionChanged", st)>>
                  [] from = "rescan" ->
                       /\ to = "done"
                       /\ \/ Published = <<>>
                          \/ Len(Published) = 1 /\ Published[1].type = "NetworkScan"
                  [] OTHER -> FALSE]_vars

\* A connect unit has ended after publishing the status and the scan result
C27_Witness ==
    \E i \in 1..Len(mtasks) :
        /\ mtasks[i].kind = "connect"
        /\ mtasks[i].pc = "done"
        /\ mtasks[i].sent = 2

-----------------------------------------------------------------------------
(* Which messages make the listener publish (SpecListener) *)

\* C28: the listener publishes a RefreshConnection, and moves the debounce
\* timestamp, only for a message that matches its subscription: the
\* PropertiesChanged signal of the device of interest. No other message taken
\* from the connection has published.
C28_OnlyMatchingPublishes ==
    \A i \in 1..Len(notes) : notes[i].sent => MatchRule(notes[i].msg)

-----------------------------------------------------------------------------
(* SpecAps: src/network/manager.rs, NetworkManager::list_access_points     *)
(* applied to what the service reports                                     *)

\* What get_access_point_info returns for one access point object: Err, or
\* the access point; the hidden ones have the empty SSID
ApSsids == {"", "x", "y"}
ApStrengths == {30, 80}
ApInfos ==
    {[ok |-> FALSE, ssid |-> "", strength |-> 30]}
    \cup {[ok |-> TRUE, ssid |-> n, strength |-> g] : n \in ApSsids, g \in ApStrengths}

\* The answers of one call: the access point objects of the device, in the
\* order of get_all_access_points, and the index of the active one, if any
RECURSIVE SeqsUpTo(_, _)
SeqsUpTo(set, n) ==
    IF n = 0 THEN {<<>>}
    ELSE LET shorter == SeqsUpTo(set, n - 1)
         IN shorter \cup {Append(q, x) : q \in {r \in shorter : Len(r) = n - 1}, x \in set}

BusAnswers ==
    {[infos |-> infos, active_ap |-> a] :
        infos \in SeqsUpTo(ApInfos, MaxAps),
        a \in {None} \cup {Some(i) : i \in 1..MaxAps}}

\* WifiAccessPoint as get_access_point_info builds it for the object at path
WifiAccessPoint(path, info, active_ap) ==
    [path |-> path, ssid |-> info.ssid, strength |-> info.strength,
     is_active |-> active_ap = Some(path)]

\* The comparator of the sort_by call: a goes before b
\* b.is_active.cmp(&a.is_active).then_with(|| b.strength.cmp(&a.strength))
sorts_before(a, b) ==
    \/ a.is_active /\ ~b.is_active
    \/ a.is_active = b.is_active /\ a.strength > b.strength

\* Vec::sort_by is stable: an element goes after those it does not sort before
RECURSIVE insert_sorted(_, _)
insert_sorted(sorted, x) ==
    IF sorted = <<>> THEN <<x>>
    ELSE IF sorts_before(x, Head(sorted)) THEN <<x>> \o sorted
    ELSE <<Head(sorted)>> \o insert_sorted(Tail(sorted), x)

RECURSIVE sort_by(_)
sort_by(v) ==
    IF v = <<>> THEN <<>>
    ELSE insert_sorted(sort_by(SubSeq(v, 1, Len(v) - 1)), v[Len(v)])

\* access_points.retain(|ap| seen.insert(ap.ssid.clone()))
RECURSIVE retain_unseen(_, _)
retain_unseen(v, seen) ==
    IF v = <<>> THEN <<>>
    ELSE IF Head(v).ssid \in seen THEN retain_unseen(Tail(v), seen)
    ELSE <<Head(v)>> \o retain_unseen(Tail(v), seen \cup {Head(v).ssid})

\* The access points pushed by the loop over ap_paths
RECURSIVE collect(_, _, _)
collect(infos, active_ap, path) ==
    IF path > Len(infos) THEN <<>>
    ELSE (IF infos[path].ok /\ infos[path].ssid # ""
          THEN <<WifiAccessPoint(path, infos[path], active_ap)>> ELSE <<>>)
         \o collect(infos, active_ap, path + 1)

list_access_points(answer) ==
    retain_unseen(sort_by(collect(answer.infos, answer.active_ap, 1)), {})

\* One call of list_access_points
ApList ==
    \E answer \in BusAnswers :
        /\ listed_aps = None
        /\ bus_aps' = Some(answer)
        /\ listed_aps' = Some(list_access_points(answer))
        /\ UNCHANGED <<appVars, mainVars, sigVars, shutVars, animVars, statVars, slideVars>>

InitAps ==
    /\ ApIdle
    /\ StatIdle
    /\ SlideIdle
    /\ AppIdle
    /\ MainIdle
    /\ SigIdle
    /\ ShutIdle
    /\ AnimIdle

NextAps == ApList

SpecAps == InitAps /\ [][NextAps]_vars

\* The visible access points of the answer: read without error, SSID not empty
Visible(answer) ==
    {i \in 1..Len(answer.infos) : answer.infos[i].ok /\ answer.infos[i].ssid # ""}

\* C29: the list returned has at most one entry per SSID, and the entry of an
\* SSID is an access point of the strongest signal among the visible access
\* points with that SSID.
C29_StrongestPerSsid ==
    IsSome(listed_aps) =>
        LET out == Unwrap(listed_aps)
            answer == Unwrap(bus_aps)
        IN /\ \A i, j \in 1..Len(out) : out[i].ssid = out[j].ssid => i = j
           /\ \A i \in 1..Len(out) :
                 \A p \in Visible(answer) :
                    answer.infos[p].ssid = out[i].ssid =>
                       out[i].strength >= answer.infos[p].strength

-----------------------------------------------------------------------------
(* SpecDiagOut: the output buffer of the Diagnostics page of src/app.rs on *)
(* a host with many interfaces                                             *)

\* The snapshot of a host with n wired interfaces, each with statistics
SnapMany(n) ==
    [devices |-> [i \in 1..n |-> Dev(i, "Ethernet", "Activated")],
     wifi_access_points |-> <<>>,
     saved_connections |-> <<>>,
     active_connections |-> <<>>,
     dns |-> [servers |-> <<"1.1.1.1">>, search_domains |-> <<>>],
     stats |-> 1..n]

OutKeys == {"5", "j", "k", "Enter", "Esc"}

OutKey ==
    /\ ~app.should_quit
    /\ \E k \in OutKeys : Deliver(World, KeyEvent(k), None)

\* A NetworkRefresh with the snapshot of a small or of a large host arrives
OutRefresh ==
    /\ ~app.should_quit
    /\ \E n \in {1, MaxDevices} : Deliver(World, NetworkRefresh(SnapMany(n)), None)

NextDiagOut ==
    \/ OutKey
    \/ OutRefresh
    \/ AppDiagLine
    \/ AppDiagDone

SpecDiagOut == InitApp /\ [][NextDiagOut]_vars

\* C30: the output buffer of the Diagnostics page never holds more than
\* DIAG_MAX (200) lines, whatever events and diagnostic runs came before.
C30_DiagOutputBounded == Len(app.diagnostics_state.output) <= DIAG_MAX

-----------------------------------------------------------------------------
(* SpecToast: the toast of src/app.rs under keys, ticks and the results of *)
(* the spawned units                                                       *)

\* Interfaces page, disconnect, answer of the confirm dialog, refresh
ToastKeys == {"2", "d", "y", "r"}

ToastKey ==
    /\ ~app.should_quit
    /\ \E k \in ToastKeys : Deliver(World, KeyEvent(k), None)

NextToast ==
    \/ AppCheckPermissions
    \/ ToastKey
    \/ AppTick
    \/ AppRpcOk
    \/ AppRpcErr
    \/ AppRefreshDone

SpecToast == InitApp /\ [][NextToast]_vars

\* A call of show_toast leaves the full count and a message
ToastShown == app'.toast_ticks = 12 /\ app'.toast_message # None

\* C31: a toast message is present exactly while its remaining tick count
\* is positive; a Tick lowers the count by one (not below 0), every other
\* event either leaves count and message alone or shows a toast with the
\* count at 12: so the toast is shown for exactly 12 Ticks after the last
\* show_toast and is then cleared.
C31_ToastLastsTwelveTicks ==
    /\ [](app.toast_message # None <=> app.toast_ticks > 0)
    /\ [][IF AppTick
          THEN app'.toast_ticks = Max0(app.toast_ticks - 1)
          ELSE \/ ToastShown
               \/ /\ app'.toast_ticks = app.toast_ticks
                  /\ app'.toast_message = app.toast_message]_vars

\* The twelfth Tick after a show_toast is about to clear the message
C31_Witness == app.toast_message # None /\ app.toast_ticks = 1

-----------------------------------------------------------------------------
(* SpecConfirm: the confirm dialog of src/app.rs for disconnect and delete *)

\* A host with two connected devices and two saved profiles
SnapOffice ==
    [devices |-> <<Dev("eth0", "Ethernet", "Activated"),
                   Dev("wlan0", "WiFi", "Activated")>>,
     wifi_access_points |-> <<>>,
     saved_connections |-> <<Profile(<<"o">>, 3, "802-3-ethernet"),
                             Profile(<<"d">>, 1, "802-11-wireless")>>,
     active_connections |-> <<[uuid |-> 3]>>,
     dns |-> [servers |-> <<>>, search_domains |-> <<>>],
     stats |-> {}]

ConfirmSnapshots == {SnapHome, SnapOffice}

\* Pages Interfaces and Connections, selection, disconnect, delete, the
\* answers of the dialog, a key the dialog does not know, refresh
ConfirmKeys == {"2", "4", "j", "d", "x", "y", "Y", "n", "Esc", "r"}

ConfirmKey ==
    /\ ~app.should_quit
    /\ \E k \in ConfirmKeys : Deliver(World, KeyEvent(k), None)

ConfirmRefreshDone ==
    /\ ~app.should_quit
    /\ \E i \in 1..Len(tasks), state \in ConfirmSnapshots :
          /\ tasks[i].kind = "refresh"
          /\ Deliver(Finished(i), NetworkRefresh(state), None)

NextConfirm ==
    \/ AppCheckPermissions
    \/ ConfirmKey
    \/ ConfirmRefreshDone
    \/ AppRpcOk
    \/ AppRpcErr

SpecConfirm == InitApp /\ [][NextConfirm]_vars

\* The units that delete a connection or disconnect a device
ConfirmedOps == {"delete", "disconnect"}

Dispatches(ts) == SelectSeq(ts, LAMBDA t : t.kind \in ConfirmedOps)

\* The unit on_confirm spawns for a pending action
UnitOf(action) ==
    Task(IF action.kind = "DeleteConnection" THEN "delete" ELSE "disconnect",
         <<>>, None, action.obj)

\* The pending action for the row selected on the active page
PendingOfSelection ==
    LET state == Unwrap(app.network_state)
    IN IF app.active_page = "Interfaces"
       THEN Some([kind |-> "DisconnectDevice",
                  obj |-> state.devices[app.interfaces_state.selected_index + 1].interface])
       ELSE Some([kind |-> "DeleteConnection",
                  obj |-> state.saved_connections[
                              app.connections_state.selected_index + 1].id])

\* C32: a delete or disconnect unit is dispatched only by the answer y in
\* the confirm dialog, and then one unit for the pending action, which is
\* the object selected when the dialog opened and is kept while the dialog
\* is open; every other key or event dispatches nothing, and once the
\* dialog is left (by y, n or Esc) no action is pending any more.
C32_DispatchOnlyOnConfirm ==
    [][/\ Len(Dispatches(tasks')) > Len(Dispatches(tasks)) =>
            /\ app.mode = "Dialog"
            /\ IsSome(app.pending_action)
            /\ \E k \in {"y", "Y"} : Deliver(World, KeyEvent(k), None)
            /\ tasks' = Append(tasks, UnitOf(Unwrap(app.pending_action)))
       /\ (app.mode # "Dialog" /\ app'.mode = "Dialog") =>
            /\ IsSome(app.network_state)
            /\ app'.pending_action = PendingOfSelection
       /\ (app.mode = "Dialog" /\ app'.mode = "Dialog") =>
            app'.pending_action = app.pending_action
       /\ app'.mode # "Dialog" => app'.pending_action = None]_vars

\* The dialog was answered with y after a refresh had moved another device
\* to the selected row: the unit is for the device the dialog was opened for
C32_Witness ==
    /\ \E i \in 1..Len(tasks) : tasks[i].kind = "disconnect" /\ tasks[i].obj = "wlan0"
    /\ app.network_state = Some(SnapOffice)
    /\ app.interfaces_state.selected_index = 0


\* The units that change the state of the network
StateChanging(ts) == SelectSeq(ts, LAMBDA t : t.kind \in RpcKinds)

\* C33: a state-changing unit (connect, activate, deactivate, disconnect,
\* delete, WiFi toggle) is dispatched only by an event handled while the
\* permission level is Full.
C33_DispatchOnlyWithFull ==
    [][Len(StateChanging(tasks')) > Len(StateChanging(tasks)) =>
          app.permission_level = "Full"]_vars

-----------------------------------------------------------------------------
(* SpecModes: the mode of src/app.rs and its two dialogs under every kind  *)
(* of event                                                                *)

\* Pages Interfaces and WiFi, selection, disconnect, connect, the answers of
\* the dialogs, refresh
ModeKeys == {"2", "3", "j", "d", "y", "Esc", "Enter", "r"}

ModeKey ==
    /\ ~app.should_quit
    /\ \E k \in ModeKeys : Deliver(World, KeyEvent(k), None)
    /\ Len(tasks') <= MaxModeTasks

\* The unit of trigger_refresh ends with the snapshot of one host
ModeRefreshDone ==
    /\ ~app.should_quit
    /\ \E i \in 1..Len(tasks) :
          /\ tasks[i].kind = "refresh"
          /\ Deliver(Finished(i), NetworkRefresh(SnapHome), None)

ModeRpcOk == AppRpcOk /\ Len(tasks') <= MaxModeTasks

ModeRpcErr == AppRpcErr /\ Len(tasks') <= MaxModeTasks

NextModes ==
    \/ AppCheckPermissions
    \/ ModeKey
    \/ AppTick
    \/ AppResize
    \/ ModeRpcOk
    \/ ModeRpcErr
    \/ ModeRefreshDone

SpecModes == InitApp /\ [][NextModes]_vars

\* C34: the mode is Dialog exactly when an action is pending and the
\* confirm dialog is visible, the mode is Input exactly when the input
\* dialog is visible, and only a key event changes the mode.
C34_DialogsAgreeWithMode ==
    /\ [](app.mode = "Dialog" <=>
             (IsSome(app.pending_action) /\ app.confirm_dialog.visible))
    /\ [](app.mode = "Input" <=> app.input_dialog.visible)
    /\ [][app'.mode # app.mode => ModeKey]_vars

\* An ActionError lowered the permission level while the password prompt,
\* which opens only with the level Full, was open
C34_Witness ==
    /\ app.mode = "Input"
    /\ app.input_dialog.visible
    /\ app.permission_level = "ReadOnly"

-----------------------------------------------------------------------------
(* SpecStop: the two tasks of EventHandler::new, src/event.rs, against     *)
(* EventHandler::stop.  The tasks run on the worker threads of the runtime, *)
(* stop() on the thread of main: a load of the flag and the send that       *)
(* follows it are two steps, and stop() can come between them.              *)

exceptShut == <<appVars, mainVars, sigVars, animVars, extVars>>

\* tx.send(event) into the open queue, noted with the flag as it is then
tx_send(event) == published' = Append(published, [event |-> event, stopped |-> stop])

\* What reader.next().await can complete with
TerminalEvents == {"Key", "Resize", "Mouse", "None"}

\* Input task, head of the loop: if input_stop.load() { return }
StopInputTop ==
    /\ ppc["input"] = "top"
    /\ ppc' = [ppc EXCEPT !["input"] = IF stop THEN "exited" ELSE "read"]
    /\ UNCHANGED <<stop, rx_open, cleanup, tick_left, sleep_left, closed_sends,
                   published, exceptShut>>

\* reader.next().await completes
StopInputArrives ==
    /\ ppc["input"] = "read"
    /\ \E e \in TerminalEvents : ppc' = [ppc EXCEPT !["input"] = <<"got", e>>]
    /\ UNCHANGED <<stop, rx_open, cleanup, tick_left, sleep_left, closed_sends,
                   published, exceptShut>>

\* Input task after the await: if input_stop.load() { return }, then the
\* match on the event
StopInputCheck ==
    /\ ppc["input"] \in {<<"got", e>> : e \in TerminalEvents}
    /\ LET e == ppc["input"][2]
       IN ppc' = [ppc EXCEPT !["input"] =
                     IF stop THEN "exited"
                     ELSE CASE e \in {"Key", "Resize"} -> <<"send", e>>
                            [] e = "Mouse" -> "top"
                            [] e = "None" -> "exited"]
    /\ UNCHANGED <<stop, rx_open, cleanup, tick_left, sleep_left, closed_sends,
                   published, exceptShut>>

\* input_tx.send(Event::Key(key)) or input_tx.send(Event::Resize(w, h))
StopInputSend ==
    /\ ppc["input"] \in {<<"send", e>> : e \in {"Key", "Resize"}}
    /\ Len(published) < MaxPublished
    /\ tx_send(ppc["input"][2])
    /\ ppc' = [ppc EXCEPT !["input"] = "top"]
    /\ UNCHANGED <<stop, rx_open, cleanup, tick_left, sleep_left, closed_sends,
                   exceptShut>>

\* interval.tick().await completes
StopTickWake ==
    /\ ppc["tick"] = "wait"
    /\ ppc' = [ppc EXCEPT !["tick"] = "woke"]
    /\ UNCHANGED <<stop, rx_open, cleanup, tick_left, sleep_left, closed_sends,
                   published, exceptShut>>

\* Tick task: if tick_stop.load() { return }
StopTickCheck ==
    /\ ppc["tick"] = "woke"
    /\ ppc' = [ppc EXCEPT !["tick"] = IF stop THEN "exited" ELSE "send"]
    /\ UNCHANGED <<stop, rx_open, cleanup, tick_left, sleep_left, closed_sends,
                   published, exceptShut>>

\* tick_tx.send(Event::Tick)
StopTickSend ==
    /\ ppc["tick"] = "send"
    /\ Len(published) < MaxPublished
    /\ tx_send("Tick")
    /\ ppc' = [ppc EXCEPT !["tick"] = "wait"]
    /\ UNCHANGED <<stop, rx_open, cleanup, tick_left, sleep_left, closed_sends,
                   exceptShut>>

\* EventHandler::stop: stop.store(true)
StopCall ==
    /\ ~stop
    /\ stop' = TRUE
    /\ UNCHANGED <<rx_open, ppc, cleanup, tick_left, sleep_left, closed_sends,
                   published, exceptShut>>

\* EventHandler::new has returned: both tasks are spawned, the flag is false
InitStop ==
    /\ stop = FALSE
    /\ rx_open = TRUE
    /\ ppc = [p \in Producers |-> CASE p = "input" -> "top"
                                    [] p = "tick" -> "wait"
                                    [] OTHER -> "idle"]
    /\ cleanup = "loop"
    /\ tick_left = 0
    /\ sleep_left = 0
    /\ closed_sends = {}
    /\ published = <<>>
    /\ AppIdle
    /\ MainIdle
    /\ SigIdle
    /\ AnimIdle
    /\ ExtIdle

NextStop ==
    \/ StopInputTop
    \/ StopInputArrives
    \/ StopInputCheck
    \/ StopInputSend
    \/ StopTickWake
    \/ StopTickCheck
    \/ StopTickSend
    \/ StopCall

SpecStop == InitStop /\ [][NextStop]_vars

\* C35: no event (Tick, Key or Resize) is published by a task of the event
\* handler once stop() has been called.
C35_NoPublishAfterStop == \A i \in 1..Len(published) : ~published[i].stopped


-----------------------------------------------------------------------------
(* SpecStorm: the debounce loop of src/network/signals.rs under a run of   *)
(* notifications, after a successful subscription                          *)

\* The PropertiesChanged of the WiFi device and a reply to a method call
StormMessages ==
    {Message("Signal", Some("PropertiesChanged"), "device"),
     Message("MethodReturn", None, "")}

\* stream.next() yields a message of the storm
StormNotify ==
    /\ last_signal >= 0
    /\ Len(notes) < MaxStormNotes
    /\ \E msg \in StormMessages : Notify(msg)

\* One second passes; no armed timer is overdue
StormTick ==
    /\ now < MaxStormTime
    /\ slpc = "start" => now < MaxStartDelay
    /\ timers.fallback # now
    /\ now' = now + 1
    /\ UNCHANGED <<sub, slpc, last_signal, timers, chan, notes, appVars, mainVars,
                   shutVars, animVars, extVars>>

NextStorm ==
    \/ SigSubscribeOk
    \/ StormNotify
    \/ SigFallbackFire
    \/ StormTick

SpecStorm == InitListener /\ [][NextStorm]_vars

\* The notifications before the j-th that were acted on
ActedBefore(j) == {i \in 1..(j - 1) : notes[i].sent}

\* The last of them
LastActed(j) == CHOOSE i \in ActedBefore(j) : \A k \in ActedBefore(j) : k <= i

\* C36: while the queue is open, a matching notification that arrives at
\* least 2 s after the last notification that was acted on publishes a
\* RefreshConnection, however many notifications were absorbed in between.
C36_AbsorbedDoNotPostpone ==
    chan.open =>
        \A j \in 1..Len(notes) :
            (/\ MatchRule(notes[j].msg)
             /\ ActedBefore(j) # {}
             /\ notes[j].at - notes[LastActed(j)].at >= debounce)
            => notes[j].sent

\* A notification was acted on, the next two were absorbed within the
\* following second, and a fourth one, 2 s after the first, was acted on
C36_Witness ==
    /\ chan.open
    /\ \E i, j, k \in 1..Len(notes) :
          /\ k = i + 3
          /\ notes[i].sent
          /\ j \in {i + 1, i + 2}
          /\ \A a \in {i + 1, i + 2} :
                ~notes[a].sent /\ notes[a].member = Some("PropertiesChanged")
          /\ notes[j].at > notes[i].at
          /\ MatchRule(notes[k].msg)
          /\ notes[k].at = notes[i].at + debounce
          /\ notes[k].sent


-----------------------------------------------------------------------------
(* The periodic refresh sources (SpecListener) *)

\* The interval loops that are spawned and have not returned
Running == {t \in {"poll", "fallback"} : timers[t] >= 0}

\* C37: once start_signal_listener has returned, and while the queue is
\* open, exactly one periodic source runs: the 5 s poll if and only if the
\* subscription failed, the 15 s fallback poll, with the debounce loop, if
\* and only if it succeeded.
C37_OnePeriodicSource ==
    (slpc = "returned" /\ chan.open) =>
        /\ Cardinality(Running) = 1
        /\ "poll" \in Running <=> sub.result = "failed"
        /\ "fallback" \in Running <=> sub.result = "ok"
        /\ last_signal >= 0 <=> sub.result = "ok"
        /\ \A i \in 1..Len(chan.refreshes) :
              chan.refreshes[i].by = "poll" <=> sub.result = "failed"

\* The subscription succeeded and the fallback poll has fired twice
C37_Witness ==
    /\ slpc = "returned"
    /\ chan.open
    /\ sub.result = "ok"
    /\ \E i, j \in 1..Len(chan.refreshes) :
          /\ i < j
          /\ chan.refreshes[i].by = "fallback"
          /\ chan.refreshes[j].by = "fallback"


-----------------------------------------------------------------------------
(* SpecSpike: StatsPoller::poll of src/network/stats.rs against the         *)
(* counters the kernel keeps: a counter only grows, whether or not its file *)
(* can be read                                                              *)

\* What a poll cannot read: nothing, rx_bytes or tx_packets of "a"
SpikeFails == {<<>>} \cup ({"a"} \X FailNames)

\* One call of poll(): since the poll before, the rx_bytes counter of each
\* interface has grown by up to MaxStep; both interfaces are listed
SpikePoll ==
    /\ polls < MaxPolls
    /\ \E da \in 0..MaxStep, fail \in SpikeFails :
          LET grown == [i \in Ifaces |-> counters[i] + (IF i = "a" THEN da ELSE 1)]
              read == ReadOf(Ifaces, grown, [i \in Ifaces |-> 0], fail)
          IN /\ counters' = grown
             /\ poller' = poll(poller, Some(<<"a", "b">>), read)
             /\ sysfs' = Answered(Some(<<"a", "b">>), read)
    /\ polls' = polls + 1
    /\ UNCHANGED <<warm, appVars, mainVars, sigVars, shutVars, animVars, slideVars,
                   apVars>>

\* The poller is new; the interfaces have been up for a while
InitSpike ==
    /\ poller = StatsPoller_new
    /\ polls = 0
    /\ sysfs = None
    /\ warm = 0
    /\ counters \in [Ifaces -> {0, MaxCounter}]
    /\ AppIdle
    /\ MainIdle
    /\ SigIdle
    /\ ShutIdle
    /\ AnimIdle
    /\ SlideIdle
    /\ ApIdle

NextSpike == SpikePoll

SpecSpike == InitSpike /\ [][NextSpike]_vars

\* C38: the rx rate poll() records for an interface that has a previous
\* sample never exceeds the growth of its counter since the poll before,
\* also when the poll before could not read the counter.
C38_RateWithinTrueIncrease ==
    [][polls' # polls =>
          \A i \in DOMAIN poller.previous :
              poller'.stats[i].rx_rate <= counters'[i] - counters[i]]_vars


-----------------------------------------------------------------------------
(* The keys of the two maps (SpecStats) *)

\* C39: after a poll() whose enumeration succeeded, the statistics map and
\* the previous-sample map hold exactly the enumerated interfaces; a poll()
\* whose enumeration failed leaves both maps as they were.
C39_MapsHoldTheEnumerated ==
    [][Polled =>
          IF Enumerated
          THEN /\ DOMAIN poller'.stats = Present
               /\ DOMAIN poller'.previous = Present
          ELSE /\ poller'.stats = poller.stats
               /\ poller'.previous = poller.previous]_vars

\* The last poll could not enumerate the interfaces; the maps still hold the
\* two interfaces of the poll before, with their rates
C39_Witness ==
    /\ IsSome(sysfs)
    /\ Unwrap(sysfs).listing = None
    /\ Unwrap(sysfs).last = {"a", "b"}
    /\ DOMAIN poller.stats = {"a", "b"}
    /\ DOMAIN poller.previous = {"a", "b"}
    /\ poller.stats["b"].rx_history # <<>>


-----------------------------------------------------------------------------
(* SpecSelect: the selection of the WiFi page of src/app.rs under a filter *)
(* and refreshes                                                           *)

\* Two scans of the same place: the access point "sd" is seen by the first
\* and not by the second
SnapThree ==
    [devices |-> <<Dev("wlan0", "WiFi", "Activated")>>,
     wifi_access_points |-> <<AP(<<"d">>, "WPA2", FALSE, FALSE),
                              AP(<<"s", "d">>, "WPA2", FALSE, FALSE),
                              AP(<<"x">>, "Open", FALSE, FALSE)>>,
     saved_connections |-> <<>>,
     active_connections |-> <<>>,
     dns |-> [servers |-> <<>>, search_domains |-> <<>>],
     stats |-> {}]

SnapTwo ==
    [SnapThree EXCEPT !.wifi_access_points =
        <<AP(<<"d">>, "WPA2", FALSE, FALSE), AP(<<"x">>, "Open", FALSE, FALSE)>>]

\* WiFi page, start of the filter, a character, end of the filter, selection,
\* refresh
SelectKeys == {"3", "/", "d", "Enter", "Esc", "j", "k", "G", "r"}

SelectKey ==
    /\ ~app.should_quit
    /\ \E k \in SelectKeys : Deliver(World, KeyEvent(k), None)

SelectRefreshDone ==
    /\ ~app.should_quit
    /\ \E i \in 1..Len(tasks), state \in {SnapThree, SnapTwo} :
          /\ tasks[i].kind = "refresh"
          /\ Deliver(Finished(i), NetworkRefresh(state), None)

NextSelect ==
    \/ SelectKey
    \/ SelectRefreshDone

SpecSelect == InitApp /\ [][NextSelect]_vars

\* C40: whenever the filtered access-point list is not empty, the selected
\* index of the WiFi page is the index of one of its rows.
C40_SelectionInFilteredList ==
    (IsSome(app.network_state) /\ filtered_aps(World) # <<>>) =>
        app.wifi_state.selected_index < Len(filtered_aps(World))

====
